---- MODULE Spec2Model ----
(***************************************************************************)
(* A model of the wainscot layout designer: the measurement utilities of   *)
(* src/src/utils/measurements.ts, the reactive state of                    *)
(* WainscotVisualizer.vue and the geometry of WainscotPanelLayout.vue.     *)
(*                                                                         *)
(* JavaScript numbers are modelled as IEEE 754 doubles: every operation of *)
(* the source (+, -, *, /, Math.round, Math.floor, Math.min, toFixed,      *)
(* parseFloat) computes the exact result and rounds it to the nearest      *)
(* double, so that a tie, the sign of a zero and a division by zero come   *)
(* out as they do in the program.                                          *)
(***************************************************************************)
EXTENDS Integers, Sequences, FiniteSets, TLC

\* ------------------------------------------------------------------------
\* Natural numbers of any size: the sequence of their digits in base 2^15,
\* lowest digit first, without a leading (highest) zero digit; zero is << >>.
\* The operations are functions, so that an argument is evaluated once,
\* before the operation is applied.
\* ------------------------------------------------------------------------

Abs(i) == IF i < 0 THEN -i ELSE i
IntMax[i \in Int, j \in Int] == IF i >= j THEN i ELSE j
IntMin[i \in Int, j \in Int] == IF i <= j THEN i ELSE j

Base == 32768
LimbBits == 15
BigNat == Seq(Nat)

Pow2[k \in Nat] == IF k = 0 THEN 1 ELSE 2 * Pow2[k - 1]
Pow10[k \in Nat] == IF k = 0 THEN 1 ELSE 10 * Pow10[k - 1]
IntBitLen[i \in Nat] == IF i = 0 THEN 0 ELSE 1 + IntBitLen[i \div 2]
IntTrailingZeros[i \in Nat] ==
  IF i % 2 = 1 THEN 0 ELSE 1 + IntTrailingZeros[i \div 2]

Limb(x, i) == IF i <= Len(x) THEN x[i] ELSE 0

Trim[x \in BigNat] ==
  IF x = << >> THEN x
  ELSE IF x[Len(x)] = 0 THEN Trim[SubSeq(x, 1, Len(x) - 1)] ELSE x

FromInt[i \in Nat] == IF i = 0 THEN << >> ELSE <<i % Base>> \o FromInt[i \div Base]
\* The value of a number of at most two digits.
ToInt[x \in BigNat] == Limb(x, 1) + Base * Limb(x, 2)

AddFrom[x \in BigNat, y \in BigNat, i \in Nat, c \in Nat] ==
  IF i > Len(x) /\ i > Len(y) THEN IF c = 0 THEN << >> ELSE <<c>>
  ELSE <<(Limb(x, i) + Limb(y, i) + c) % Base>>
         \o AddFrom[x, y, i + 1, (Limb(x, i) + Limb(y, i) + c) \div Base]
BAdd[x \in BigNat, y \in BigNat] == AddFrom[x, y, 1, 0]

\* x - y for x >= y.
SubFrom[x \in BigNat, y \in BigNat, i \in Nat, b \in Nat] ==
  IF i > Len(x) THEN << >>
  ELSE IF x[i] - Limb(y, i) - b < 0
       THEN <<x[i] - Limb(y, i) - b + Base>> \o SubFrom[x, y, i + 1, 1]
       ELSE <<x[i] - Limb(y, i) - b>> \o SubFrom[x, y, i + 1, 0]
BSub[x \in BigNat, y \in BigNat] == Trim[SubFrom[x, y, 1, 0]]

\* -1, 0 or 1 as x is below, equal to or above y.
CmpFrom[x \in BigNat, y \in BigNat, i \in Nat] ==
  IF i = 0 THEN 0
  ELSE IF x[i] < y[i] THEN -1
  ELSE IF x[i] > y[i] THEN 1
  ELSE CmpFrom[x, y, i - 1]
BCmp[x \in BigNat, y \in BigNat] ==
  IF Len(x) < Len(y) THEN -1
  ELSE IF Len(x) > Len(y) THEN 1
  ELSE CmpFrom[x, y, Len(x)]

\* x * k for a digit k.
MulSmallFrom[x \in BigNat, k \in Nat, i \in Nat, c \in Nat] ==
  IF i > Len(x) THEN IF c = 0 THEN << >> ELSE <<c>>
  ELSE <<(x[i] * k + c) % Base>>
         \o MulSmallFrom[x, k, i + 1, (x[i] * k + c) \div Base]
BMulSmall[x \in BigNat, k \in Nat] ==
  IF k = 0 THEN << >> ELSE MulSmallFrom[x, k, 1, 0]

TimesBase[x \in BigNat] == IF x = << >> THEN x ELSE <<0>> \o x
MulFrom[x \in BigNat, y \in BigNat, j \in Nat] ==
  IF j > Len(y) THEN << >>
  ELSE BAdd[BMulSmall[x, y[j]], TimesBase[MulFrom[x, y, j + 1]]]
BMul[x \in BigNat, y \in BigNat] == IF x = << >> THEN x ELSE MulFrom[x, y, 1]

BitLen[x \in BigNat] ==
  IF x = << >> THEN 0 ELSE LimbBits * (Len(x) - 1) + IntBitLen[x[Len(x)]]

\* x * 2^bits.
BShl[x \in BigNat, bits \in Nat] ==
  IF x = << >> THEN x
  ELSE [i \in 1..(bits \div LimbBits) |-> 0] \o BMulSmall[x, Pow2[bits % LimbBits]]

\* Quotient and remainder of x by a digit k > 0, from the highest digit down.
DivSmallFrom[x \in BigNat, k \in Nat, i \in Nat, rem \in Nat] ==
  IF i = 0 THEN << >>
  ELSE DivSmallFrom[x, k, i - 1, (rem * Base + x[i]) % k]
         \o <<(rem * Base + x[i]) \div k>>
BDivSmall[x \in BigNat, k \in Nat] == Trim[DivSmallFrom[x, k, Len(x), 0]]
RemSmallFrom[x \in BigNat, k \in Nat, i \in Nat, rem \in Nat] ==
  IF i = 0 THEN rem ELSE RemSmallFrom[x, k, i - 1, (rem * Base + x[i]) % k]
BRemSmall[x \in BigNat, k \in Nat] == RemSmallFrom[x, k, Len(x), 0]

\* floor(x / 2^bits).
BShr[x \in BigNat, bits \in Nat] ==
  IF bits \div LimbBits >= Len(x) THEN << >>
  ELSE BDivSmall[SubSeq(x, bits \div LimbBits + 1, Len(x)), Pow2[bits % LimbBits]]

\* The binary digit of weight 2^i.
BitAt[x \in BigNat, i \in Nat] ==
  (Limb(x, i \div LimbBits + 1) \div Pow2[i % LimbBits]) % 2

\* Whether x has a nonzero binary digit below weight 2^bits.
LowBitsNonzero[x \in BigNat, bits \in Nat] ==
  \/ \E j \in 1..(bits \div LimbBits) : Limb(x, j) # 0
  \/ Limb(x, bits \div LimbBits + 1) % Pow2[bits % LimbBits] # 0

\* The number of zero binary digits at the low end of x > 0.
TrailingZerosFrom[x \in BigNat, i \in Nat] ==
  IF x[i] = 0 THEN LimbBits + TrailingZerosFrom[x, i + 1]
  ELSE IntTrailingZeros[x[i]]
BTrailingZeros[x \in BigNat] == TrailingZerosFrom[x, 1]

\* Long division.  One step brings down the digit u of the dividend into the
\* remainder R < Y and takes out the next digit of the quotient: the
\* estimate from the two highest digits, lowered until it fits (Y has its
\* highest binary digit set, so the estimate is at most 2 too large).
CorrectQ[R \in BigNat, Y \in BigNat, q \in Nat] ==
  IF BCmp[BMulSmall[Y, q], R] > 0 THEN CorrectQ[R, Y, q - 1] ELSE q
QDigit[R \in BigNat, Y \in BigNat] ==
  IF BCmp[R, Y] < 0 THEN 0
  ELSE CorrectQ[R, Y,
         IntMin[Base - 1,
                (Limb(R, Len(Y) + 1) * Base + Limb(R, Len(Y))) \div Y[Len(Y)]]]
DivTake[Q \in BigNat, R \in BigNat, Y \in BigNat, q \in Nat] ==
  <<(<<q>> \o Q), BSub[R, BMulSmall[Y, q]]>>
DivBring[Q \in BigNat, R \in BigNat, Y \in BigNat] == DivTake[Q, R, Y, QDigit[R, Y]]
DivStep[S \in Seq(BigNat), u \in Nat, Y \in BigNat] ==
  DivBring[S[1], Trim[<<u>> \o S[2]], Y]
DivLoop[X \in BigNat, Y \in BigNat, i \in Nat, S \in Seq(BigNat)] ==
  IF i = 0 THEN S ELSE DivLoop[X, Y, i - 1, DivStep[S, X[i], Y]]
DivNormalised[X \in BigNat, Y \in BigNat] == DivLoop[X, Y, Len(X), <<<< >>, << >>>>]
\* <<quotient (a leading zero digit may remain), remainder * 2^shift>> of x by y > 0.
BDivMod[x \in BigNat, y \in BigNat] ==
  DivNormalised[BShl[x, LimbBits - IntBitLen[y[Len(y)]]],
                BShl[y, LimbBits - IntBitLen[y[Len(y)]]]]

\* ------------------------------------------------------------------------
\* JavaScript numbers: IEEE 754 binary64.  A finite number is
\* (-1)^neg * mant * 2^exp with mant odd (or zero, with exp 0): every double
\* has exactly one such form, and the two zeros differ in neg.  Every
\* operation computes the exact result and rounds it once to 53 significant
\* binary digits, ties to even, as the hardware does.
\* ------------------------------------------------------------------------

Numbers ==
  [kind : {"finite", "infinite", "NaN"}, neg : BOOLEAN, mant : BigNat, exp : Int]

Zero(neg) == [kind |-> "finite", neg |-> neg, mant |-> << >>, exp |-> 0]
Inf(neg) == [kind |-> "infinite", neg |-> neg, mant |-> << >>, exp |-> 0]
NaN == [kind |-> "NaN", neg |-> FALSE, mant |-> << >>, exp |-> 0]
Infinity == Inf(FALSE)

isNaN(a) == a.kind = "NaN"
isFinite(a) == a.kind = "finite"
IsZero(a) == a.kind = "finite" /\ a.mant = << >>

\* N * 2^e for N > 0, in the form with N odd.
CanonAt[neg \in BOOLEAN, N \in BigNat, e \in Int, tz \in Nat] ==
  [kind |-> "finite", neg |-> neg, mant |-> BShr[N, tz], exp |-> e + tz]
Canon[neg \in BOOLEAN, N \in BigNat, e \in Int] ==
  CanonAt[neg, N, e, BTrailingZeros[N]]
\* N * 2^e of at most 53 digits; Infinity from 2^1024 on.
Finish[neg \in BOOLEAN, N \in BigNat, e \in Int] ==
  IF N = << >> THEN Zero(neg)
  ELSE IF BitLen[N] + e > 1024 THEN Inf(neg)
  ELSE Canon[neg, N, e]
\* N, or N + 1.
Increment[N \in BigNat, up \in BOOLEAN] == IF up THEN BAdd[N, <<1>>] ELSE N
\* Whether rounding away the lowest drop digits of N goes up, ties to even;
\* sticky says that the exact value lies above N.
RoundsUp[N \in BigNat, sticky \in BOOLEAN, drop \in Nat] ==
  /\ drop > 0
  /\ BitAt[N, drop - 1] = 1
  /\ (sticky \/ LowBitsNonzero[N, drop - 1] \/ BitAt[N, drop] = 1)
\* N * 2^e with the lowest drop digits rounded away.
RoundDrop[neg \in BOOLEAN, N \in BigNat, e \in Int, sticky \in BOOLEAN, drop \in Nat] ==
  Finish[neg, Increment[BShr[N, drop], RoundsUp[N, sticky, drop]], e + drop]
\* The double nearest to N * 2^e: 53 significant digits, and no digit below
\* 2^-1074.
RoundToDouble[neg \in BOOLEAN, N \in BigNat, e \in Int, sticky \in BOOLEAN] ==
  RoundDrop[neg, N, e, sticky, IntMax[IntMax[BitLen[N] - 53, (-1074) - e], 0]]

\* The integer i as a number.
Num(i) == IF i = 0 THEN Zero(FALSE) ELSE Canon[i < 0, FromInt[Abs(i)], 0]

Neg[a \in Numbers] == IF isNaN(a) THEN a ELSE [a EXCEPT !.neg = ~a.neg]
RatAbs[a \in Numbers] == [a EXCEPT !.neg = FALSE]

Mul[a \in Numbers, b \in Numbers] ==
  IF isNaN(a) \/ isNaN(b) THEN NaN
  ELSE IF ~isFinite(a) \/ ~isFinite(b)
       THEN IF IsZero(a) \/ IsZero(b) THEN NaN ELSE Inf(a.neg # b.neg)
  ELSE RoundToDouble[a.neg # b.neg, BMul[a.mant, b.mant], a.exp + b.exp, FALSE]

\* The quotient of N by D > 0, times 2^e, from <<quotient, remainder>>.
DivRound[neg \in BOOLEAN, qr \in Seq(BigNat), e \in Int] ==
  RoundToDouble[neg, Trim[qr[1]], e, qr[2] # << >>]
\* N / D * 2^e: the quotient is taken to k more binary digits, so that it has
\* at least 56.
DivShifted[neg \in BOOLEAN, N \in BigNat, D \in BigNat, e \in Int, k \in Nat] ==
  DivRound[neg, BDivMod[BShl[N, k], D], e - k]
DivExact[neg \in BOOLEAN, N \in BigNat, D \in BigNat, e \in Int] ==
  DivShifted[neg, N, D, e, IntMax[0, 56 + BitLen[D] - BitLen[N]]]
Div[a \in Numbers, b \in Numbers] ==
  IF isNaN(a) \/ isNaN(b) THEN NaN
  ELSE IF ~isFinite(b)
       THEN IF isFinite(a) THEN Zero(a.neg # b.neg) ELSE NaN
  ELSE IF IsZero(b)
       THEN IF IsZero(a) THEN NaN ELSE Inf(a.neg # b.neg)
  ELSE IF ~isFinite(a) THEN Inf(a.neg # b.neg)
  ELSE IF IsZero(a) THEN Zero(a.neg # b.neg)
  ELSE DivExact[a.neg # b.neg, a.mant, b.mant, a.exp - b.exp]

\* The number written n/d in the source or typed as such a decimal.
Rat(n, d) == Div[Num(n), Num(d)]

\* (-1)^negA * A * 2^e + (-1)^negB * B * 2^e for A, B > 0, where c compares
\* A with B: the sign is that of the larger, and x + (-x) is +0.
AddCompared[negA \in BOOLEAN, A \in BigNat, negB \in BOOLEAN, B \in BigNat, e \in Int, c \in Int] ==
  RoundToDouble[IF negA = negB THEN negA ELSE IF c = 0 THEN FALSE
                ELSE IF c > 0 THEN negA ELSE negB,
                IF negA = negB THEN BAdd[A, B]
                ELSE IF c >= 0 THEN BSub[A, B] ELSE BSub[B, A],
                e, FALSE]
AddAligned[negA \in BOOLEAN, A \in BigNat, negB \in BOOLEAN, B \in BigNat, e \in Int] ==
  AddCompared[negA, A, negB, B, e, BCmp[A, B]]
AddFinite[a \in Numbers, b \in Numbers, e \in Int] ==
  AddAligned[a.neg, BShl[a.mant, a.exp - e], b.neg, BShl[b.mant, b.exp - e], e]
\* The position of the highest binary digit of a finite nonzero number.
Top(a) == BitLen[a.mant] + a.exp
Add[a \in Numbers, b \in Numbers] ==
  IF isNaN(a) \/ isNaN(b) THEN NaN
  ELSE IF ~isFinite(a)
       THEN IF ~isFinite(b) /\ a.neg # b.neg THEN NaN ELSE a
  ELSE IF ~isFinite(b) THEN b
  ELSE IF IsZero(a) /\ IsZero(b) THEN Zero(a.neg /\ b.neg)
  ELSE IF IsZero(a) THEN b
  ELSE IF IsZero(b) THEN a
  \* a number below 2^-120 of the other does not change it
  ELSE IF Top(a) - Top(b) > 120 THEN a
  ELSE IF Top(b) - Top(a) > 120 THEN b
  ELSE AddFinite[a, b, IntMin[a.exp, b.exp]]
Sub[a \in Numbers, b \in Numbers] == Add[a, Neg[b]]

\* a < b and a <= b; every comparison with NaN is false, and the two zeros
\* are equal.
IsNegative[a \in Numbers] == a.neg /\ ~IsZero(a) /\ ~isNaN(a)
IsPositive[a \in Numbers] == ~a.neg /\ ~IsZero(a) /\ ~isNaN(a)
\* -1, 0 or 1 as |a| is below, equal to or above |b|, neither being NaN.
CmpMagnitude[a \in Numbers, b \in Numbers] ==
  IF ~isFinite(a) \/ ~isFinite(b)
  THEN IF a.kind = b.kind THEN 0 ELSE IF isFinite(a) THEN -1 ELSE 1
  ELSE IF IsZero(a) \/ IsZero(b)
       THEN IF a.mant = b.mant THEN 0 ELSE IF IsZero(a) THEN -1 ELSE 1
  ELSE IF Top(a) # Top(b) THEN IF Top(a) < Top(b) THEN -1 ELSE 1
  ELSE BCmp[BShl[a.mant, a.exp - IntMin[a.exp, b.exp]],
            BShl[b.mant, b.exp - IntMin[a.exp, b.exp]]]
\* -1, 0 or 1 as a is below, equal to or above b, neither being NaN.
Compare[a \in Numbers, b \in Numbers] ==
  IF IsZero(a) /\ IsZero(b) THEN 0
  ELSE IF a.neg # b.neg THEN IF a.neg THEN -1 ELSE 1
  ELSE IF a.neg THEN CmpMagnitude[b, a] ELSE CmpMagnitude[a, b]
Lt[a \in Numbers, b \in Numbers] ==
  ~isNaN(a) /\ ~isNaN(b) /\ Compare[a, b] < 0
Le[a \in Numbers, b \in Numbers] ==
  ~isNaN(a) /\ ~isNaN(b) /\ Compare[a, b] <= 0
\* a === b
StrictEquals[a \in Numbers, b \in Numbers] ==
  ~isNaN(a) /\ ~isNaN(b) /\ (a = b \/ (IsZero(a) /\ IsZero(b)))

\* Math.min / Math.max of two numbers; NaN when either is NaN, and -0 is
\* below +0.
MinCompared[a \in Numbers, b \in Numbers, c \in Int] ==
  IF c < 0 THEN a ELSE IF c > 0 THEN b ELSE IF a.neg THEN a ELSE b
MathMin[a \in Numbers, b \in Numbers] ==
  IF isNaN(a) \/ isNaN(b) THEN NaN ELSE MinCompared[a, b, Compare[a, b]]
MaxCompared[a \in Numbers, b \in Numbers, c \in Int] ==
  IF c < 0 THEN b ELSE IF c > 0 THEN a ELSE IF a.neg THEN b ELSE a
MathMax[a \in Numbers, b \in Numbers] ==
  IF isNaN(a) \/ isNaN(b) THEN NaN ELSE MaxCompared[a, b, Compare[a, b]]

\* The integer of magnitude N.
FromMagnitude[neg \in BOOLEAN, N \in BigNat] ==
  IF N = << >> THEN Zero(neg) ELSE Canon[neg, N, 0]

\* Math.floor: the largest integer <= a; integers (-0 among them),
\* infinities and NaN are returned as they are.
MathFloor[a \in Numbers] ==
  IF ~isFinite(a) \/ a.exp >= 0 THEN a
  ELSE FromMagnitude[a.neg, Increment[BShr[a.mant, -a.exp], a.neg]]

\* Math.round: the nearest integer, a tie going up (towards +Infinity); a
\* negative number that rounds to zero gives -0.
MathRound[a \in Numbers] ==
  IF ~isFinite(a) \/ a.exp >= 0 THEN a
  ELSE FromMagnitude[a.neg,
         Increment[BShr[a.mant, -a.exp],
                   /\ BitAt[a.mant, (-a.exp) - 1] = 1
                   /\ (a.neg => LowBitsNonzero[a.mant, (-a.exp) - 1])]]

\* Number.prototype.toFixed: the integer n for which n / 10^digits is nearest
\* to the magnitude of the number, the larger n of two equally near.
ScaledDigits[T \in BigNat, e \in Int] ==
  IF e >= 0 THEN BShl[T, e]
  ELSE Increment[BShr[T, -e], BitAt[T, (-e) - 1] = 1]
FixedDigits[a \in Numbers, digits \in Nat] ==
  ScaledDigits[BMul[a.mant, FromInt[Pow10[digits]]], a.exp]

\* parseFloat of the numeral of n / 10^digits with its sign: the double
\* nearest to it.
ParseFixed[neg \in BOOLEAN, n \in BigNat, digits \in Nat] ==
  IF n = << >> THEN Zero(neg)
  ELSE DivExact[neg, n, FromInt[Pow10[digits]], 0]

\* parseFloat(a.toFixed(digits)); an infinity and NaN are written and read
\* back as they are, and -0 is written without its sign.
toFixed[a \in Numbers, digits \in Nat] ==
  IF ~isFinite(a) THEN a
  ELSE ParseFixed[IsNegative[a], FixedDigits[a, digits], digits]

\* Whether a number is an integer, and the value of a small one.
IsInteger(a) == isFinite(a) /\ a.exp >= 0
IntOf[a \in Numbers] ==
  IF a.neg THEN -ToInt[BShl[a.mant, a.exp]] ELSE ToInt[BShl[a.mant, a.exp]]

\* ------------------------------------------------------------------------
\* src/src/utils/measurements.ts
\* ------------------------------------------------------------------------

INCH_TO_MM == Rat(254, 10)
FOOT_TO_MM == Rat(3048, 10)

MeasurementUnit == {"imperial", "metric"}
ImperialUnit == {"inches", "feet"}
MetricUnit == {"mm", "cm", "m"}

\* As convertFromMm, with the inch value cut down (Math.floor) instead of
\* rounded.
convertFromMm_floor(valueMm, sUnit, iUnit, mUnit) ==
  IF sUnit = "imperial"
  THEN IF iUnit = "inches"
       THEN Div[MathFloor[Mul[Div[valueMm, INCH_TO_MM], Num(16)]], Num(16)]
       ELSE toFixed[Div[valueMm, FOOT_TO_MM], 2]
  ELSE IF mUnit = "mm" THEN MathRound[valueMm]
       ELSE IF mUnit = "cm" THEN toFixed[Div[valueMm, Num(10)], 1]
       ELSE toFixed[Div[valueMm, Num(1000)], 3]

\* As convertFromMm, with feet kept to one decimal place instead of two.
convertFromMm_oneDecimal(valueMm, sUnit, iUnit, mUnit) ==
  IF sUnit = "imperial"
  THEN IF iUnit = "inches"
       THEN Div[MathRound[Mul[Div[valueMm, INCH_TO_MM], Num(16)]], Num(16)]
       ELSE toFixed[Div[valueMm, FOOT_TO_MM], 1]
  ELSE IF mUnit = "mm" THEN MathRound[valueMm]
       ELSE IF mUnit = "cm" THEN toFixed[Div[valueMm, Num(10)], 1]
       ELSE toFixed[Div[valueMm, Num(1000)], 3]

convertFromMm(valueMm, sUnit, iUnit, mUnit) ==
  IF sUnit = "imperial"
  THEN IF iUnit = "inches"
       THEN Div[MathRound[Mul[Div[valueMm, INCH_TO_MM], Num(16)]], Num(16)]
       ELSE toFixed[Div[valueMm, FOOT_TO_MM], 2]
  ELSE IF mUnit = "mm" THEN MathRound[valueMm]
       ELSE IF mUnit = "cm" THEN toFixed[Div[valueMm, Num(10)], 1]
       ELSE toFixed[Div[valueMm, Num(1000)], 3]

\* As convertToMm, with the result rounded to a whole millimetre.
convertToMm_rounded(value, sUnit, iUnit, mUnit) ==
  IF sUnit = "imperial"
  THEN IF iUnit = "inches" THEN MathRound[Mul[value, INCH_TO_MM]]
       ELSE MathRound[Mul[value, FOOT_TO_MM]]
  ELSE IF mUnit = "mm" THEN MathRound[value]
       ELSE IF mUnit = "cm" THEN MathRound[Mul[value, Num(10)]]
       ELSE MathRound[Mul[value, Num(1000)]]

convertToMm(value, sUnit, iUnit, mUnit) ==
  IF sUnit = "imperial"
  THEN IF iUnit = "inches" THEN Mul[value, INCH_TO_MM]
       ELSE Mul[value, FOOT_TO_MM]
  ELSE IF mUnit = "mm" THEN value
       ELSE IF mUnit = "cm" THEN Mul[value, Num(10)]
       ELSE Mul[value, Num(1000)]

\* As roundToNearestFraction, cutting down to a sixteenth (Math.floor).
roundToNearestFraction_floor(value, sUnit, iUnit) ==
  IF sUnit = "imperial" /\ iUnit = "inches"
  THEN Div[MathFloor[Mul[value, Num(16)]], Num(16)]
  ELSE value

roundToNearestFraction(value, sUnit, iUnit) ==
  IF sUnit = "imperial" /\ iUnit = "inches"
  THEN Div[MathRound[Mul[value, Num(16)]], Num(16)]
  ELSE value

getInputStep(sUnit, iUnit, mUnit) ==
  IF sUnit = "imperial" /\ iUnit = "inches" THEN Rat(625, 10000)
  ELSE IF sUnit = "imperial" /\ iUnit = "feet" THEN Rat(1, 100)
  ELSE IF sUnit = "metric" /\ mUnit = "mm" THEN Num(1)
  ELSE IF sUnit = "metric" /\ mUnit = "cm" THEN Rat(1, 10)
  ELSE Rat(1, 1000)

\* Number to text, as a template literal or toFixed writes it.  The decimal
\* digits of a natural number, left-padded with zeros to a width.
RECURSIVE PaddedDigits(_, _)
PaddedDigits(n, width) ==
  IF width = 0 THEN ""
  ELSE PaddedDigits(n \div 10, width - 1) \o ToString(n % 10)

\* The decimal numeral of a natural number of any size.
BigToText[x \in BigNat] ==
  IF Len(x) <= 2 THEN ToString(ToInt[x])
  ELSE BigToText[BDivSmall[x, 10000]] \o PaddedDigits(BRemSmall[x, 10000], 4)

\* 10^k as a natural number of any size, and k zeros as text.
BPow10[k \in Nat] == IF k = 0 THEN <<1>> ELSE BMulSmall[BPow10[k - 1], 10]
ZeroText[k \in Nat] == IF k = 0 THEN "" ELSE "0" \o ZeroText[k - 1]

\* Number::toString.  The magnitude of a finite nonzero number is the
\* fraction A / B of naturals; n is its decimal exponent,
\* 10^(n-1) <= A / B < 10^n.
NumeratorOf(a) == IF a.exp >= 0 THEN BShl[a.mant, a.exp] ELSE a.mant
DenominatorOf(a) == IF a.exp >= 0 THEN <<1>> ELSE BShl[<<1>>, -a.exp]
ExponentUp[A \in BigNat, B10 \in BigNat, n \in Int] ==
  IF BCmp[A, B10] < 0 THEN n ELSE ExponentUp[A, BMulSmall[B10, 10], n + 1]
ExponentDown[A10 \in BigNat, B \in BigNat, n \in Int] ==
  IF BCmp[A10, B] >= 0 THEN n ELSE ExponentDown[BMulSmall[A10, 10], B, n - 1]
DecimalExponent[A \in BigNat, B \in BigNat] ==
  IF BCmp[A, B] >= 0 THEN ExponentUp[A, BMulSmall[B, 10], 1]
  ELSE ExponentDown[BMulSmall[A, 10], B, 0]

\* The double that the numeral of s * 10^m denotes.
DigitsValue[s \in BigNat, m \in Int] ==
  IF m >= 0 THEN RoundToDouble[FALSE, BMul[s, BPow10[m]], 0, FALSE]
  ELSE DivExact[FALSE, s, BPow10[-m], 0]

\* What a search for digits returns: the digits found (none when the length
\* tried has none) and the decimal exponent.
DigitsFound == [digits : BigNat, n : Int]

\* The digits the numeral has when k digits are enough: of the two numbers of
\* k digits next to the magnitude a (lo below or at it, hi above), one that
\* denotes a, the nearer of the two when both do (the even one when they are
\* equally near); no digits when neither does.  cmp compares the distance
\* from lo with the distance from hi.
DigitsChoice[n \in Int, k \in Nat, lo \in BigNat, hi \in BigNat, cmp \in Int, loDenotes \in BOOLEAN, hiDenotes \in BOOLEAN] ==
  IF loDenotes /\ (~hiDenotes \/ cmp < 0 \/ (cmp = 0 /\ BitAt[lo, 0] = 0))
  THEN [digits |-> lo, n |-> n]
  ELSE IF hiDenotes
       THEN IF hi = BPow10[k] THEN [digits |-> <<1>>, n |-> n + 1]
            ELSE [digits |-> hi, n |-> n]
  ELSE [digits |-> << >>, n |-> n]
DigitsPair[a \in Numbers, n \in Int, k \in Nat, lo \in BigNat, hi \in BigNat, cmp \in Int] ==
  DigitsChoice[n, k, lo, hi, cmp, DigitsValue[lo, n - k] = a, DigitsValue[hi, n - k] = a]
DigitsBelow[a \in Numbers, n \in Int, k \in Nat, lo \in BigNat, cmp \in Int] ==
  DigitsPair[a, n, k, lo, BAdd[lo, <<1>>], cmp]
DigitsQuotient[a \in Numbers, n \in Int, k \in Nat, qr \in Seq(BigNat), Q \in BigNat] ==
  DigitsBelow[a, n, k, Trim[qr[1]], BCmp[BShl[qr[2], 1], Q]]
DigitsScaled[a \in Numbers, n \in Int, k \in Nat, P \in BigNat, Q \in BigNat] ==
  DigitsQuotient[a, n, k, BDivMod[P, Q], BShl[Q, LimbBits - IntBitLen[Q[Len(Q)]]]]
DigitsAt[a \in Numbers, A \in BigNat, B \in BigNat, n \in Int, k \in Nat] ==
  DigitsScaled[a, n, k,
               IF k >= n THEN BMul[A, BPow10[k - n]] ELSE A,
               IF k >= n THEN B ELSE BMul[B, BPow10[n - k]]]
\* The fewest digits that denote a.
ShortestFrom[a \in Numbers, A \in BigNat, B \in BigNat, n \in Int, k \in Nat, found \in DigitsFound] ==
  IF found.digits # << >> THEN found
  ELSE ShortestFrom[a, A, B, n, k + 1, DigitsAt[a, A, B, n, k + 1]]

\* The numeral from its digits D and the decimal exponent n: plain digits up
\* to 21 integer digits and down to six zeros after the point, exponent
\* notation beyond.
NumberLayout[D \in STRING, n \in Int] ==
  IF Len(D) <= n /\ n <= 21 THEN D \o ZeroText[n - Len(D)]
  ELSE IF 0 < n /\ n <= 21
       THEN SubSeq(D, 1, n) \o "." \o SubSeq(D, n + 1, Len(D))
  ELSE IF -6 < n /\ n <= 0 THEN "0." \o ZeroText[-n] \o D
  ELSE (IF Len(D) = 1 THEN D
        ELSE SubSeq(D, 1, 1) \o "." \o SubSeq(D, 2, Len(D)))
         \o (IF n >= 1 THEN "e+" ELSE "e-") \o ToString(Abs(n - 1))
ShortestLayout[r \in DigitsFound] ==
  NumberLayout[BigToText[r.digits], r.n]
ShortestText[a \in Numbers, A \in BigNat, B \in BigNat, n \in Int] ==
  ShortestLayout[ShortestFrom[a, A, B, n, 1, DigitsAt[a, A, B, n, 1]]]
MagnitudeText[a \in Numbers, A \in BigNat, B \in BigNat] ==
  ShortestText[a, A, B, DecimalExponent[A, B]]

\* `${x}`: the shortest numeral that reads back as x; "0" for both zeros.
NumberText[a \in Numbers] ==
  IF isNaN(a) THEN "NaN"
  ELSE IF ~isFinite(a) THEN IF a.neg THEN "-Infinity" ELSE "Infinity"
  ELSE IF IsZero(a) THEN "0"
  ELSE (IF a.neg THEN "-" ELSE "")
         \o MagnitudeText[RatAbs[a], NumeratorOf(a), DenominatorOf(a)]
numberToText(a) == NumberText[a]

\* x.toFixed(digits) as text, digits <= 4: sign, integer digits, point,
\* fraction digits; from 10^21 on, the numeral `${x}`.
TenTo21 == Canon[FALSE, BPow10[21], 0]
FixedTextOf[neg \in BOOLEAN, n \in BigNat, digits \in Nat] ==
  (IF neg THEN "-" ELSE "")
    \o BigToText[BDivSmall[n, Pow10[digits]]]
    \o (IF digits = 0 THEN ""
        ELSE "." \o PaddedDigits(BRemSmall[n, Pow10[digits]], digits))
FixedText[a \in Numbers, digits \in Nat] ==
  IF ~isFinite(a) \/ Le[TenTo21, RatAbs[a]] THEN NumberText[a]
  ELSE FixedTextOf[IsNegative[a], FixedDigits[a, digits], digits]
toFixedText(a, digits) == FixedText[a, digits]

\* As fractions, with the eighths only.
fractions_eighthsOnly ==
  [key \in {Rat(k, 8) : k \in 1..7} |->
     CASE key = Rat(1, 8) -> "1/8"
       [] key = Rat(1, 4) -> "1/4"
       [] key = Rat(3, 8) -> "3/8"
       [] key = Rat(1, 2) -> "1/2"
       [] key = Rat(5, 8) -> "5/8"
       [] key = Rat(3, 4) -> "3/4"
       [] key = Rat(7, 8) -> "7/8"]

\* The table of Unicode fraction glyphs of decimalToFraction, keyed by the
\* fraction.  Each glyph is written here by its ASCII name: the single
\* character U+00BC is "1/4", the three characters U+00B9 U+2044 U+2081
\* U+2086 of one sixteenth are "1/16", and so on.
fractions ==
  [key \in {Rat(k, 16) : k \in 1..15} |->
     CASE key = Rat(1, 16) -> "1/16"
       [] key = Rat(1, 8) -> "1/8"
       [] key = Rat(3, 16) -> "3/16"
       [] key = Rat(1, 4) -> "1/4"
       [] key = Rat(5, 16) -> "5/16"
       [] key = Rat(3, 8) -> "3/8"
       [] key = Rat(7, 16) -> "7/16"
       [] key = Rat(1, 2) -> "1/2"
       [] key = Rat(9, 16) -> "9/16"
       [] key = Rat(5, 8) -> "5/8"
       [] key = Rat(11, 16) -> "11/16"
       [] key = Rat(3, 4) -> "3/4"
       [] key = Rat(13, 16) -> "13/16"
       [] key = Rat(7, 8) -> "7/8"
       [] key = Rat(15, 16) -> "15/16"]

\* fractions[fractionalPart] || fractionalPart.toFixed(2)
fractionText(fractionalPart) ==
  IF fractionalPart \in DOMAIN fractions THEN fractions[fractionalPart]
  ELSE toFixedText(fractionalPart, 2)

\* As decimalToFraction, without the carry into the whole part.
decimalToFraction_noCarry(decimal) ==
  LET wholePart == MathFloor[decimal]
      fractionalPart ==
        Div[MathRound[Mul[Sub[decimal, wholePart], Num(16)]], Num(16)]
  IN  IF Lt[fractionalPart, Rat(1, 10000)] THEN numberToText(wholePart)
      ELSE IF StrictEquals[wholePart, Num(0)] THEN fractionText(fractionalPart)
      ELSE numberToText(wholePart) \o " " \o fractionText(fractionalPart)

\* As decimalToFraction, joining whole part and glyph without the space.
decimalToFraction_noSpace(decimal) ==
  LET wholePart == MathFloor[decimal]
      fractionalPart ==
        Div[MathRound[Mul[Sub[decimal, wholePart], Num(16)]], Num(16)]
  IN  IF Le[Rat(9999, 10000), fractionalPart]
      THEN numberToText(Add[wholePart, Num(1)])
      ELSE IF Lt[fractionalPart, Rat(1, 10000)] THEN numberToText(wholePart)
      ELSE IF StrictEquals[wholePart, Num(0)] THEN fractionText(fractionalPart)
      ELSE numberToText(wholePart) \o fractionText(fractionalPart)

decimalToFraction(decimal) ==
  LET wholePart == MathFloor[decimal]
      fractionalPart ==
        Div[MathRound[Mul[Sub[decimal, wholePart], Num(16)]], Num(16)]
  IN  IF Le[Rat(9999, 10000), fractionalPart]
      THEN numberToText(Add[wholePart, Num(1)])
      ELSE IF Lt[fractionalPart, Rat(1, 10000)] THEN numberToText(wholePart)
      ELSE IF StrictEquals[wholePart, Num(0)] THEN fractionText(fractionalPart)
      ELSE numberToText(wholePart) \o " " \o fractionText(fractionalPart)

\* The glyph table of formatAsFraction (its own copy), glyphs by ASCII name.
fractionsOfFormatAsFraction ==
  [key \in {Rat(k, 16) : k \in 1..15} |->
     CASE key = Rat(1, 16) -> "1/16"
       [] key = Rat(1, 8) -> "1/8"
       [] key = Rat(3, 16) -> "3/16"
       [] key = Rat(1, 4) -> "1/4"
       [] key = Rat(5, 16) -> "5/16"
       [] key = Rat(3, 8) -> "3/8"
       [] key = Rat(7, 16) -> "7/16"
       [] key = Rat(1, 2) -> "1/2"
       [] key = Rat(9, 16) -> "9/16"
       [] key = Rat(5, 8) -> "5/8"
       [] key = Rat(11, 16) -> "11/16"
       [] key = Rat(3, 4) -> "3/4"
       [] key = Rat(13, 16) -> "13/16"
       [] key = Rat(7, 8) -> "7/8"
       [] key = Rat(15, 16) -> "15/16"]

\* As formatAsFraction, looking the fraction up before rounding it.
formatAsFraction_unrounded(value) ==
  LET wholePart == MathFloor[value]
      decimalPart == Sub[value, wholePart]
      roundedDecimal == Div[MathRound[Mul[decimalPart, Num(16)]], Num(16)]
      shown == IF decimalPart \in DOMAIN fractionsOfFormatAsFraction
               THEN fractionsOfFormatAsFraction[decimalPart]
               ELSE toFixedText(decimalPart, 2)
  IN  IF Le[Rat(9999, 10000), roundedDecimal]
      THEN numberToText(Add[wholePart, Num(1)])
      ELSE IF Lt[roundedDecimal, Rat(1, 10000)] THEN numberToText(wholePart)
      ELSE IF StrictEquals[wholePart, Num(0)] THEN shown
      ELSE numberToText(wholePart) \o " " \o shown

formatAsFraction(value) ==
  LET wholePart == MathFloor[value]
      decimalPart == Sub[value, wholePart]
      roundedDecimal == Div[MathRound[Mul[decimalPart, Num(16)]], Num(16)]
      shown == IF roundedDecimal \in DOMAIN fractionsOfFormatAsFraction
               THEN fractionsOfFormatAsFraction[roundedDecimal]
               ELSE toFixedText(roundedDecimal, 2)
  IN  IF Le[Rat(9999, 10000), roundedDecimal]
      THEN numberToText(Add[wholePart, Num(1)])
      ELSE IF Lt[roundedDecimal, Rat(1, 10000)] THEN numberToText(wholePart)
      ELSE IF StrictEquals[wholePart, Num(0)] THEN shown
      ELSE numberToText(wholePart) \o " " \o shown

formatImperialMeasurement(value, iUnit) ==
  IF iUnit = "inches" THEN decimalToFraction(value)
  ELSE toFixedText(value, 2)

getUnitLabel(sUnit, iUnit, mUnit) ==
  IF sUnit = "imperial" THEN iUnit ELSE mUnit

\* ------------------------------------------------------------------------
\* Bounds of the model
\* ------------------------------------------------------------------------

\* How many edits (a dimension field, a panel count, a lumber selection) a
\* behaviour holds; unit changes are not counted.
MaxEdits == 1
\* How many edits a behaviour of the height fields holds (SpecChairRail).
MaxHeightEdits == 2
\* How many lumber selections a behaviour of the layout's menus holds
\* (SpecLumber).
MaxSelections == 3
\* The largest panel count typed into a panel-count field.
MaxPanelInput == 3

\* ------------------------------------------------------------------------
\* State
\* ------------------------------------------------------------------------

VARIABLES
  \* WainscotVisualizer.vue: unit preference
  selectedUnit, imperialUnit, metricUnit,
  \* WainscotVisualizer.vue: canonical dimensions, in millimetres
  wallHeightMm, wallWidthMm, chairRailHeightMm, wainscotCapHeightMm,
  railHeightMm, stileWidthMm, panelMoldingWidthMm, baseboardHeightMm,
  shoeMoldingHeightMm,
  \* WainscotVisualizer.vue: panel configuration
  horizontalPanelCount, verticalPanelCount,
  \* WainscotVisualizer.vue: the input fields' buffers
  wallWidthInput, wallHeightInput, chairRailHeightInput,
  wainscotCapHeightInput, railHeightInput, stileWidthInput,
  panelMoldingWidthInput, baseboardHeightInput, shoeMoldingHeightInput,
  \* WainscotPanelLayout.vue: the props it was rendered with, its lumber labels
  props, lumberDimensions,
  \* the call of a measurement utility under examination, and its result
  cv,
  \* the number of edits the behaviour may still hold
  edits

units == <<selectedUnit, imperialUnit, metricUnit>>
dims == <<wallHeightMm, wallWidthMm, chairRailHeightMm, wainscotCapHeightMm,
          railHeightMm, stileWidthMm, panelMoldingWidthMm, baseboardHeightMm,
          shoeMoldingHeightMm>>
counts == <<horizontalPanelCount, verticalPanelCount>>
inputs == <<wallWidthInput, wallHeightInput, chairRailHeightInput,
            wainscotCapHeightInput, railHeightInput, stileWidthInput,
            panelMoldingWidthInput, baseboardHeightInput,
            shoeMoldingHeightInput>>
vars == <<units, dims, counts, inputs, props, lumberDimensions, cv, edits>>

\* ------------------------------------------------------------------------
\* JavaScript values held by an input field: a number, or a string.  A
\* string is represented by the number its text denotes (NaN when its text
\* is not a numeral, as for the empty string).
\* ------------------------------------------------------------------------

JSNumber(a) == [type |-> "number", num |-> a]
JSString(a) == [type |-> "string", num |-> a]
EmptyString == JSString(NaN)

\* parseFloat(text): the number the text denotes, NaN when it denotes none.
parseFloat(value) == value.num

\* Number.prototype.toString: the numeral of a number, a string; it reads
\* back as the number, but for -0, whose numeral is "0".
toString(a) == JSString(IF IsZero(a) THEN Zero(FALSE) ELSE a)

\* typeof value === 'string' ? parseFloat(value) : value
numValueOf(value) ==
  IF value.type = "string" THEN parseFloat(value) ELSE value.num

\* ------------------------------------------------------------------------
\* src/src/components/WainscotVisualizer.vue
\* ------------------------------------------------------------------------

\* Display values (for input fields)
wallHeight == convertFromMm(wallHeightMm, selectedUnit, imperialUnit, metricUnit)
wallWidth == convertFromMm(wallWidthMm, selectedUnit, imperialUnit, metricUnit)
chairRailHeight == convertFromMm(chairRailHeightMm, selectedUnit, imperialUnit, metricUnit)
wainscotCapHeight == convertFromMm(wainscotCapHeightMm, selectedUnit, imperialUnit, metricUnit)
railHeight == convertFromMm(railHeightMm, selectedUnit, imperialUnit, metricUnit)
stileWidth == convertFromMm(stileWidthMm, selectedUnit, imperialUnit, metricUnit)
panelMoldingWidth == convertFromMm(panelMoldingWidthMm, selectedUnit, imperialUnit, metricUnit)
baseboardHeight == convertFromMm(baseboardHeightMm, selectedUnit, imperialUnit, metricUnit)
shoeMoldingHeight == convertFromMm(shoeMoldingHeightMm, selectedUnit, imperialUnit, metricUnit)

\* Validation for chair rail height
maxChairRailHeightMm ==
  LET oneFilthWallHeight == Div[wallHeightMm, Num(5)]
      thirtyTwoInchesInMm == Mul[Num(32), INCH_TO_MM]
  IN  MathMin[oneFilthWallHeight, thirtyTwoInchesInMm]

isChairRailHeightValid == Le[chairRailHeightMm, maxChairRailHeightMm]

\* Scaling factor for visualization
scale ==
  LET maxWidth == Num(1200)
      maxHeight == Num(800)
      widthScale == Div[maxWidth, wallWidthMm]
      heightScale == Div[maxHeight, wallHeightMm]
  IN  Mul[MathMin[widthScale, heightScale], Rat(8, 10)]

scaledWallHeight == Mul[wallHeightMm, scale]
scaledWallWidth == Mul[wallWidthMm, scale]
scaledRailHeight == Mul[railHeightMm, scale]
scaledStileWidth == Mul[stileWidthMm, scale]
scaledPanelMoldingWidth == Mul[panelMoldingWidthMm, scale]

unitLabel == getUnitLabel(selectedUnit, imperialUnit, metricUnit)

inputStep == getInputStep(selectedUnit, imperialUnit, metricUnit)

\* The props of <WainscotPanelLayout> in the template.
layoutProps ==
  [wainscotWidth |-> scaledWallWidth,
   wainscotHeight |-> scaledWallHeight,
   stileWidth |-> scaledStileWidth,
   railHeight |-> scaledRailHeight,
   panelMoldingWidth |-> scaledPanelMoldingWidth,
   horizontalPanelCount |-> horizontalPanelCount,
   verticalPanelCount |-> verticalPanelCount,
   unitLabel |-> unitLabel,
   actualWallWidth |-> wallWidth,
   actualWallHeight |-> wallHeight,
   actualStileWidth |-> stileWidth,
   actualRailHeight |-> railHeight,
   useFractions |-> (selectedUnit = "imperial")]

\* The layout rendered again after a change.  Vue computes again the computed
\* values that depend on the changed ref and leaves the others: scale depends
\* on the two sizes of the wall, and every drawing size on scale; a display
\* value depends on its own millimetre ref and on the unit preference.
renderedAfterWallHeight ==
  [props EXCEPT !.wainscotWidth = scaledWallWidth',
                !.wainscotHeight = scaledWallHeight',
                !.stileWidth = scaledStileWidth',
                !.railHeight = scaledRailHeight',
                !.panelMoldingWidth = scaledPanelMoldingWidth',
                !.actualWallHeight = wallHeight']
renderedAfterWallWidth ==
  [props EXCEPT !.wainscotWidth = scaledWallWidth',
                !.wainscotHeight = scaledWallHeight',
                !.stileWidth = scaledStileWidth',
                !.railHeight = scaledRailHeight',
                !.panelMoldingWidth = scaledPanelMoldingWidth',
                !.actualWallWidth = wallWidth']
renderedAfterRailHeight ==
  [props EXCEPT !.railHeight = scaledRailHeight',
                !.actualRailHeight = railHeight']
renderedAfterStileWidth ==
  [props EXCEPT !.stileWidth = scaledStileWidth',
                !.actualStileWidth = stileWidth']
renderedAfterPanelMoldingWidth ==
  [props EXCEPT !.panelMoldingWidth = scaledPanelMoldingWidth']
renderedAfterUnit ==
  [props EXCEPT !.unitLabel = unitLabel',
                !.actualWallWidth = wallWidth',
                !.actualWallHeight = wallHeight',
                !.actualStileWidth = stileWidth',
                !.actualRailHeight = railHeight',
                !.useFractions = (selectedUnit' = "imperial")]
renderedAfterPanelCount ==
  [props EXCEPT !.horizontalPanelCount = horizontalPanelCount',
                !.verticalPanelCount = verticalPanelCount']

\* The props of the rendered layout are those the template binds.
PropsRendered == props = layoutProps

\* The callback of watch(wallHeightMm), run after wallHeightMm changed: the
\* chair-rail height it leaves.  isChairRailHeightValid is read after the
\* change, so the ceiling is that of the new wall height.
\* As the watcher, without the clamp.
watchWallHeightMm_noClamp(newHeight) == chairRailHeightMm

\* As the watcher, resetting the chair rail to the recommended fifth of the
\* wall height (within 32 in) on every change.
watchWallHeightMm_reset(newHeight) ==
  MathMin[Div[newHeight, Num(5)], Mul[Num(32), INCH_TO_MM]]

watchWallHeightMm(newHeight) ==
  LET recommendedHeight == Div[newHeight, Num(5)]
  IN  IF ~Le[chairRailHeightMm, maxChairRailHeightMm']
      THEN MathMin[recommendedHeight, Mul[Num(32), INCH_TO_MM]]
      ELSE chairRailHeightMm

\* Update internal mm values when display values change.  The field's
\* v-model stores the raw value in the buffer, then the handler runs; the
\* layout is rendered again with the props of the new state.
updateWallHeight(value) ==
  LET numValue == numValueOf(value)
      roundedValue == roundToNearestFraction(numValue, selectedUnit, imperialUnit)
  IN  /\ edits > 0
      /\ edits' = edits - 1
      /\ wallHeightInput' = value
      /\ wallHeightMm' = IF ~isNaN(numValue)
           THEN convertToMm(roundedValue, selectedUnit, imperialUnit, metricUnit)
           ELSE wallHeightMm
      /\ chairRailHeightMm' = IF wallHeightMm' # wallHeightMm
           THEN watchWallHeightMm(wallHeightMm')
           ELSE chairRailHeightMm
      /\ UNCHANGED <<wallWidthMm, wainscotCapHeightMm, railHeightMm, stileWidthMm, panelMoldingWidthMm, baseboardHeightMm, shoeMoldingHeightMm>>
      /\ UNCHANGED <<wallWidthInput, chairRailHeightInput, wainscotCapHeightInput, railHeightInput, stileWidthInput, panelMoldingWidthInput, baseboardHeightInput, shoeMoldingHeightInput>>
      /\ UNCHANGED <<units, counts, lumberDimensions, cv>>
      /\ props' = renderedAfterWallHeight

updateWallWidth(value) ==
  LET numValue == numValueOf(value)
      roundedValue == roundToNearestFraction(numValue, selectedUnit, imperialUnit)
  IN  /\ edits > 0
      /\ edits' = edits - 1
      /\ wallWidthInput' = value
      /\ wallWidthMm' = IF ~isNaN(numValue)
           THEN convertToMm(roundedValue, selectedUnit, imperialUnit, metricUnit)
           ELSE wallWidthMm
      /\ UNCHANGED <<wallHeightMm, chairRailHeightMm, wainscotCapHeightMm, railHeightMm, stileWidthMm, panelMoldingWidthMm, baseboardHeightMm, shoeMoldingHeightMm>>
      /\ UNCHANGED <<wallHeightInput, chairRailHeightInput, wainscotCapHeightInput, railHeightInput, stileWidthInput, panelMoldingWidthInput, baseboardHeightInput, shoeMoldingHeightInput>>
      /\ UNCHANGED <<units, counts, lumberDimensions, cv>>
      /\ props' = renderedAfterWallWidth

\* As updateChairRailHeight, storing no more than the ceiling.
updateChairRailHeight_clamped(value) ==
  LET numValue == numValueOf(value)
      roundedValue == roundToNearestFraction(numValue, selectedUnit, imperialUnit)
  IN  /\ edits > 0
      /\ edits' = edits - 1
      /\ chairRailHeightInput' = value
      /\ chairRailHeightMm' = IF ~isNaN(numValue)
           THEN MathMin[convertToMm(roundedValue, selectedUnit, imperialUnit, metricUnit),
                        maxChairRailHeightMm]
           ELSE chairRailHeightMm
      /\ UNCHANGED <<wallHeightMm, wallWidthMm, wainscotCapHeightMm, railHeightMm, stileWidthMm, panelMoldingWidthMm, baseboardHeightMm, shoeMoldingHeightMm>>
      /\ UNCHANGED <<wallHeightInput, wallWidthInput, wainscotCapHeightInput, railHeightInput, stileWidthInput, panelMoldingWidthInput, baseboardHeightInput, shoeMoldingHeightInput>>
      /\ UNCHANGED <<units, counts, lumberDimensions, cv>>
      /\ UNCHANGED props

updateChairRailHeight(value) ==
  LET numValue == numValueOf(value)
      roundedValue == roundToNearestFraction(numValue, selectedUnit, imperialUnit)
  IN  /\ edits > 0
      /\ edits' = edits - 1
      /\ chairRailHeightInput' = value
      /\ chairRailHeightMm' = IF ~isNaN(numValue)
           THEN convertToMm(roundedValue, selectedUnit, imperialUnit, metricUnit)
           ELSE chairRailHeightMm
      /\ UNCHANGED <<wallHeightMm, wallWidthMm, wainscotCapHeightMm, railHeightMm, stileWidthMm, panelMoldingWidthMm, baseboardHeightMm, shoeMoldingHeightMm>>
      /\ UNCHANGED <<wallHeightInput, wallWidthInput, wainscotCapHeightInput, railHeightInput, stileWidthInput, panelMoldingWidthInput, baseboardHeightInput, shoeMoldingHeightInput>>
      /\ UNCHANGED <<units, counts, lumberDimensions, cv>>
      /\ UNCHANGED props

updateWainscotCapHeight(value) ==
  LET numValue == numValueOf(value)
      roundedValue == roundToNearestFraction(numValue, selectedUnit, imperialUnit)
  IN  /\ edits > 0
      /\ edits' = edits - 1
      /\ wainscotCapHeightInput' = value
      /\ wainscotCapHeightMm' = IF ~isNaN(numValue)
           THEN convertToMm(roundedValue, selectedUnit, imperialUnit, metricUnit)
           ELSE wainscotCapHeightMm
      /\ UNCHANGED <<wallHeightMm, wallWidthMm, chairRailHeightMm, railHeightMm, stileWidthMm, panelMoldingWidthMm, baseboardHeightMm, shoeMoldingHeightMm>>
      /\ UNCHANGED <<wallHeightInput, wallWidthInput, chairRailHeightInput, railHeightInput, stileWidthInput, panelMoldingWidthInput, baseboardHeightInput, shoeMoldingHeightInput>>
      /\ UNCHANGED <<units, counts, lumberDimensions, cv>>
      /\ UNCHANGED props

\* As updateRailHeight, storing 0 for an input that is not a number.
updateRailHeight_zero(value) ==
  LET numValue == numValueOf(value)
      roundedValue == roundToNearestFraction(numValue, selectedUnit, imperialUnit)
  IN  /\ edits > 0
      /\ edits' = edits - 1
      /\ railHeightInput' = value
      /\ railHeightMm' = IF ~isNaN(numValue)
           THEN convertToMm(roundedValue, selectedUnit, imperialUnit, metricUnit)
           ELSE Num(0)
      /\ UNCHANGED <<wallHeightMm, wallWidthMm, chairRailHeightMm, wainscotCapHeightMm, stileWidthMm, panelMoldingWidthMm, baseboardHeightMm, shoeMoldingHeightMm>>
      /\ UNCHANGED <<wallHeightInput, wallWidthInput, chairRailHeightInput, wainscotCapHeightInput, stileWidthInput, panelMoldingWidthInput, baseboardHeightInput, shoeMoldingHeightInput>>
      /\ UNCHANGED <<units, counts, lumberDimensions, cv>>
      /\ props' = renderedAfterRailHeight

updateRailHeight(value) ==
  LET numValue == numValueOf(value)
      roundedValue == roundToNearestFraction(numValue, selectedUnit, imperialUnit)
  IN  /\ edits > 0
      /\ edits' = edits - 1
      /\ railHeightInput' = value
      /\ railHeightMm' = IF ~isNaN(numValue)
           THEN convertToMm(roundedValue, selectedUnit, imperialUnit, metricUnit)
           ELSE railHeightMm
      /\ UNCHANGED <<wallHeightMm, wallWidthMm, chairRailHeightMm, wainscotCapHeightMm, stileWidthMm, panelMoldingWidthMm, baseboardHeightMm, shoeMoldingHeightMm>>
      /\ UNCHANGED <<wallHeightInput, wallWidthInput, chairRailHeightInput, wainscotCapHeightInput, stileWidthInput, panelMoldingWidthInput, baseboardHeightInput, shoeMoldingHeightInput>>
      /\ UNCHANGED <<units, counts, lumberDimensions, cv>>
      /\ props' = renderedAfterRailHeight

\* As updateStileWidth, giving the rails the thickness of the stiles as well.
updateStileWidth_alsoRail(value) ==
  LET numValue == numValueOf(value)
      roundedValue == roundToNearestFraction(numValue, selectedUnit, imperialUnit)
  IN  /\ edits > 0
      /\ edits' = edits - 1
      /\ stileWidthInput' = value
      /\ stileWidthMm' = IF ~isNaN(numValue)
           THEN convertToMm(roundedValue, selectedUnit, imperialUnit, metricUnit)
           ELSE stileWidthMm
      /\ railHeightMm' = stileWidthMm'
      /\ UNCHANGED <<wallHeightMm, wallWidthMm, chairRailHeightMm, wainscotCapHeightMm, panelMoldingWidthMm, baseboardHeightMm, shoeMoldingHeightMm>>
      /\ UNCHANGED <<wallHeightInput, wallWidthInput, chairRailHeightInput, wainscotCapHeightInput, railHeightInput, panelMoldingWidthInput, baseboardHeightInput, shoeMoldingHeightInput>>
      /\ UNCHANGED <<units, counts, lumberDimensions, cv>>
      /\ props' = layoutProps'

updateStileWidth(value) ==
  LET numValue == numValueOf(value)
      roundedValue == roundToNearestFraction(numValue, selectedUnit, imperialUnit)
  IN  /\ edits > 0
      /\ edits' = edits - 1
      /\ stileWidthInput' = value
      /\ stileWidthMm' = IF ~isNaN(numValue)
           THEN convertToMm(roundedValue, selectedUnit, imperialUnit, metricUnit)
           ELSE stileWidthMm
      /\ UNCHANGED <<wallHeightMm, wallWidthMm, chairRailHeightMm, wainscotCapHeightMm, railHeightMm, panelMoldingWidthMm, baseboardHeightMm, shoeMoldingHeightMm>>
      /\ UNCHANGED <<wallHeightInput, wallWidthInput, chairRailHeightInput, wainscotCapHeightInput, railHeightInput, panelMoldingWidthInput, baseboardHeightInput, shoeMoldingHeightInput>>
      /\ UNCHANGED <<units, counts, lumberDimensions, cv>>
      /\ props' = renderedAfterStileWidth

updatePanelMoldingWidth(value) ==
  LET numValue == numValueOf(value)
      roundedValue == roundToNearestFraction(numValue, selectedUnit, imperialUnit)
  IN  /\ edits > 0
      /\ edits' = edits - 1
      /\ panelMoldingWidthInput' = value
      /\ panelMoldingWidthMm' = IF ~isNaN(numValue)
           THEN convertToMm(roundedValue, selectedUnit, imperialUnit, metricUnit)
           ELSE panelMoldingWidthMm
      /\ UNCHANGED <<wallHeightMm, wallWidthMm, chairRailHeightMm, wainscotCapHeightMm, railHeightMm, stileWidthMm, baseboardHeightMm, shoeMoldingHeightMm>>
      /\ UNCHANGED <<wallHeightInput, wallWidthInput, chairRailHeightInput, wainscotCapHeightInput, railHeightInput, stileWidthInput, baseboardHeightInput, shoeMoldingHeightInput>>
      /\ UNCHANGED <<units, counts, lumberDimensions, cv>>
      /\ props' = renderedAfterPanelMoldingWidth

updateBaseboardHeight(value) ==
  LET numValue == numValueOf(value)
      roundedValue == roundToNearestFraction(numValue, selectedUnit, imperialUnit)
  IN  /\ edits > 0
      /\ edits' = edits - 1
      /\ baseboardHeightInput' = value
      /\ baseboardHeightMm' = IF ~isNaN(numValue)
           THEN convertToMm(roundedValue, selectedUnit, imperialUnit, metricUnit)
           ELSE baseboardHeightMm
      /\ UNCHANGED <<wallHeightMm, wallWidthMm, chairRailHeightMm, wainscotCapHeightMm, railHeightMm, stileWidthMm, panelMoldingWidthMm, shoeMoldingHeightMm>>
      /\ UNCHANGED <<wallHeightInput, wallWidthInput, chairRailHeightInput, wainscotCapHeightInput, railHeightInput, stileWidthInput, panelMoldingWidthInput, shoeMoldingHeightInput>>
      /\ UNCHANGED <<units, counts, lumberDimensions, cv>>
      /\ UNCHANGED props

updateShoeMoldingHeight(value) ==
  LET numValue == numValueOf(value)
      roundedValue == roundToNearestFraction(numValue, selectedUnit, imperialUnit)
  IN  /\ edits > 0
      /\ edits' = edits - 1
      /\ shoeMoldingHeightInput' = value
      /\ shoeMoldingHeightMm' = IF ~isNaN(numValue)
           THEN convertToMm(roundedValue, selectedUnit, imperialUnit, metricUnit)
           ELSE shoeMoldingHeightMm
      /\ UNCHANGED <<wallHeightMm, wallWidthMm, chairRailHeightMm, wainscotCapHeightMm, railHeightMm, stileWidthMm, panelMoldingWidthMm, baseboardHeightMm>>
      /\ UNCHANGED <<wallHeightInput, wallWidthInput, chairRailHeightInput, wainscotCapHeightInput, railHeightInput, stileWidthInput, panelMoldingWidthInput, baseboardHeightInput>>
      /\ UNCHANGED <<units, counts, lumberDimensions, cv>>
      /\ UNCHANGED props

\* Initialize input values: every buffer takes the numeral of its display
\* value, read in the state the unit change has produced.
initializeInputValues ==
  /\ wallWidthInput' = toString(wallWidth')
  /\ wallHeightInput' = toString(wallHeight')
  /\ chairRailHeightInput' = toString(chairRailHeight')
  /\ wainscotCapHeightInput' = toString(wainscotCapHeight')
  /\ railHeightInput' = toString(railHeight')
  /\ stileWidthInput' = toString(stileWidth')
  /\ panelMoldingWidthInput' = toString(panelMoldingWidth')
  /\ baseboardHeightInput' = toString(baseboardHeight')
  /\ shoeMoldingHeightInput' = toString(shoeMoldingHeight')

\* The measurement-system radio group (v-model="selectedUnit"); its change
\* runs watch(selectedUnit), which calls initializeInputValues.
\* As the change of selectedUnit, with the rail height stored again from its
\* value in the new unit.
setSelectedUnit_restored(unit) ==
  /\ unit # selectedUnit
  /\ selectedUnit' = unit
  /\ railHeightMm' = convertToMm(convertFromMm(railHeightMm, unit, imperialUnit, metricUnit),
                                 unit, imperialUnit, metricUnit)
  /\ UNCHANGED <<imperialUnit, metricUnit, counts, lumberDimensions, cv, edits>>
  /\ UNCHANGED <<wallHeightMm, wallWidthMm, chairRailHeightMm, wainscotCapHeightMm, stileWidthMm, panelMoldingWidthMm, baseboardHeightMm, shoeMoldingHeightMm>>
  /\ initializeInputValues
  /\ props' = layoutProps'

setSelectedUnit(unit) ==
  /\ unit # selectedUnit
  /\ selectedUnit' = unit
  /\ UNCHANGED <<imperialUnit, metricUnit, dims, counts, lumberDimensions, cv, edits>>
  /\ initializeInputValues
  /\ props' = renderedAfterUnit

\* The imperial unit select (v-if="selectedUnit === 'imperial'",
\* v-model="imperialUnit"); no watcher observes imperialUnit.
setImperialUnit(unit) ==
  /\ selectedUnit = "imperial"
  /\ unit # imperialUnit
  /\ imperialUnit' = unit
  /\ UNCHANGED <<selectedUnit, metricUnit, dims, counts, inputs, lumberDimensions, cv, edits>>
  /\ props' = renderedAfterUnit

\* The metric unit select (v-if="selectedUnit === 'metric'",
\* v-model="metricUnit"); no watcher observes metricUnit.
setMetricUnit(unit) ==
  /\ selectedUnit = "metric"
  /\ unit # metricUnit
  /\ metricUnit' = unit
  /\ UNCHANGED <<selectedUnit, imperialUnit, dims, counts, inputs, lumberDimensions, cv, edits>>
  /\ props' = renderedAfterUnit

\* The panel-count fields (v-model.number, no handler): the typed number is
\* stored as it is, and the empty string when the field is cleared.
setHorizontalPanelCount(count) ==
  /\ edits > 0
  /\ edits' = edits - 1
  /\ horizontalPanelCount' = count
  /\ UNCHANGED <<verticalPanelCount, units, dims, inputs, lumberDimensions, cv>>
  /\ props' = renderedAfterPanelCount

setVerticalPanelCount(count) ==
  /\ edits > 0
  /\ edits' = edits - 1
  /\ verticalPanelCount' = count
  /\ UNCHANGED <<horizontalPanelCount, units, dims, inputs, lumberDimensions, cv>>
  /\ props' = renderedAfterPanelCount

\* ------------------------------------------------------------------------
\* src/src/components/WainscotPanelLayout.vue
\* ------------------------------------------------------------------------

\* The lumber names, written with x for the multiplication sign.
dimensionOptions ==
  [rails |-> {"1x2", "1x4", "1x6", "1x8"},
   stiles |-> {"1x2", "1x4", "1x6", "1x8"},
   panelMoulding |-> {"3/4x3/4", "1/2x3/4", "3/4x1"},
   wainscotCap |-> {"1x2"},
   shoeMoulding |-> {"3/8x3/4", "3/4x3/4"}]

\* dimensionStr.split of the lumber names in use: the two sides of the sign.
split(dimensionStr) ==
  CASE dimensionStr = "1x2" -> <<"1", "2">>
    [] dimensionStr = "1x3" -> <<"1", "3">>
    [] dimensionStr = "1x4" -> <<"1", "4">>
    [] dimensionStr = "1x6" -> <<"1", "6">>
    [] dimensionStr = "1x8" -> <<"1", "8">>
    [] dimensionStr = "3/4x3/4" -> <<"3/4", "3/4">>
    [] dimensionStr = "1/2x3/4" -> <<"1/2", "3/4">>
    [] dimensionStr = "3/4x1" -> <<"3/4", "1">>
    [] dimensionStr = "3/8x3/4" -> <<"3/8", "3/4">>

\* parseFloat of one side: the leading numeral, which ends at a "/".
parseFloatPart(text) ==
  CASE text \in {"1", "1/2"} -> Num(1)
    [] text = "2" -> Num(2)
    [] text \in {"3", "3/4", "3/8"} -> Num(3)
    [] text = "4" -> Num(4)
    [] text = "6" -> Num(6)
    [] text = "8" -> Num(8)

getDimensionValue(dimensionStr) ==
  LET parts == split(dimensionStr)
  IN  MathMax[parseFloatPart(parts[1]), parseFloatPart(parts[2])]

\* The number a panel-count prop stands for where the layout divides by it,
\* compares with it or subtracts from it: the number itself, and 0 for the
\* empty string.
ToNumber(value) == IF "type" \in DOMAIN value THEN Zero(FALSE) ELSE value

\* for (let i = 0; i < count; i++): the number of times the body runs, for a
\* count that is not infinite.
LoopLength[count \in Numbers] ==
  IF ~IsPositive[count] THEN 0
  ELSE IF IsInteger(count) THEN IntOf[count]
  ELSE IntOf[MathFloor[count]] + 1

panelSectionWidth == Div[props.wainscotWidth, ToNumber(props.horizontalPanelCount)]
panelSectionHeight == Div[props.wainscotHeight, ToNumber(props.verticalPanelCount)]

actualPanelWidth ==
  Sub[Div[props.actualWallWidth, ToNumber(props.horizontalPanelCount)],
      props.actualStileWidth]
actualPanelHeight ==
  Sub[Div[props.actualWallHeight, ToNumber(props.verticalPanelCount)],
      props.actualRailHeight]

railHeightScale ==
  Div[props.railHeight, getDimensionValue(lumberDimensions.bottomRail)]
stileWidthScale ==
  Div[props.stileWidth, getDimensionValue(lumberDimensions.stiles)]

topRailHeight == Mul[getDimensionValue(lumberDimensions.topRail), railHeightScale]
\* As bottomRailHeight, with the scale of the default 1x2 bottom rail kept
\* whatever is selected.
bottomRailHeight_defaultScale ==
  Mul[getDimensionValue(lumberDimensions.bottomRail), Div[props.railHeight, Num(2)]]

bottomRailHeight ==
  Mul[getDimensionValue(lumberDimensions.bottomRail), railHeightScale]
\* The layout's own stileWidth computed (the prop is props.stileWidth).
adjustedStileWidth ==
  Mul[getDimensionValue(lumberDimensions.stiles), stileWidthScale]

\* As outerFrame, with the bottom rail starting a whole top-rail height above
\* the wall's lower edge.
outerFrame_bottomByTopRail ==
  [topRail |-> [x |-> Num(0), y |-> Num(0),
                width |-> props.wainscotWidth, height |-> topRailHeight],
   bottomRail |-> [x |-> Num(0),
                   y |-> Sub[props.wainscotHeight, topRailHeight],
                   width |-> props.wainscotWidth, height |-> bottomRailHeight],
   leftStile |-> [x |-> Num(0), y |-> Num(0),
                  width |-> adjustedStileWidth, height |-> props.wainscotHeight],
   rightStile |-> [x |-> Sub[props.wainscotWidth, adjustedStileWidth],
                   y |-> Num(0),
                   width |-> adjustedStileWidth, height |-> props.wainscotHeight]]

outerFrame ==
  [topRail |-> [x |-> Num(0), y |-> Num(0),
                width |-> props.wainscotWidth, height |-> topRailHeight],
   bottomRail |-> [x |-> Num(0),
                   y |-> Sub[props.wainscotHeight, bottomRailHeight],
                   width |-> props.wainscotWidth, height |-> bottomRailHeight],
   leftStile |-> [x |-> Num(0), y |-> Num(0),
                  width |-> adjustedStileWidth, height |-> props.wainscotHeight],
   rightStile |-> [x |-> Sub[props.wainscotWidth, adjustedStileWidth],
                   y |-> Num(0),
                   width |-> adjustedStileWidth, height |-> props.wainscotHeight]]

\* As innerStiles, each starting on the section boundary instead of centred
\* on it.
innerStiles_onBoundary ==
  [i \in 1..(LoopLength[ToNumber(props.horizontalPanelCount)] - 1) |->
     [x |-> Mul[Num(i), panelSectionWidth],
      y |-> Num(0),
      width |-> adjustedStileWidth,
      height |-> props.wainscotHeight]]

\* for (let i = 1; i < horizontalPanelCount; i++): the i-th element.
innerStiles ==
  [i \in 1..(LoopLength[ToNumber(props.horizontalPanelCount)] - 1) |->
     [x |-> Sub[Mul[Num(i), panelSectionWidth], Div[adjustedStileWidth, Num(2)]],
      y |-> Num(0),
      width |-> adjustedStileWidth,
      height |-> props.wainscotHeight]]

innerRails ==
  [i \in 1..(LoopLength[ToNumber(props.verticalPanelCount)] - 1) |->
     [x |-> Num(0),
      y |-> Sub[Mul[Num(i), panelSectionHeight], Div[bottomRailHeight, Num(2)]],
      width |-> props.wainscotWidth,
      height |-> bottomRailHeight]]

\* As panelArea, with every column starting a whole stile width into its
\* section.
panelArea_fullStile(row, col) ==
  LET panelX == Add[Mul[Num(col), panelSectionWidth], adjustedStileWidth]
      panelY == Add[Mul[Num(row), panelSectionHeight],
                    IF row = 0 THEN topRailHeight
                    ELSE Div[bottomRailHeight, Num(2)]]
      panelWidth == Sub[panelSectionWidth,
                        IF col = 0 \/ StrictEquals[Num(col), Sub[ToNumber(props.horizontalPanelCount), Num(1)]]
                        THEN Mul[adjustedStileWidth, Rat(3, 2)]
                        ELSE adjustedStileWidth]
      panelHeight == Sub[panelSectionHeight,
                         IF row = 0
                         THEN Add[topRailHeight, Div[bottomRailHeight, Num(2)]]
                         ELSE IF StrictEquals[Num(row), Sub[ToNumber(props.verticalPanelCount), Num(1)]]
                              THEN Mul[bottomRailHeight, Rat(3, 2)]
                              ELSE bottomRailHeight]
  IN  [x |-> panelX, y |-> panelY, width |-> panelWidth, height |-> panelHeight,
       row |-> row, col |-> col]

\* As panelArea, testing for the last row before the first.
panelArea_lastRowFirst(row, col) ==
  LET panelX == Add[Mul[Num(col), panelSectionWidth],
                    IF col = 0 THEN adjustedStileWidth
                    ELSE Div[adjustedStileWidth, Num(2)]]
      panelY == Add[Mul[Num(row), panelSectionHeight],
                    IF row = 0 THEN topRailHeight
                    ELSE Div[bottomRailHeight, Num(2)]]
      panelWidth == Sub[panelSectionWidth,
                        IF col = 0 \/ StrictEquals[Num(col), Sub[ToNumber(props.horizontalPanelCount), Num(1)]]
                        THEN Mul[adjustedStileWidth, Rat(3, 2)]
                        ELSE adjustedStileWidth]
      panelHeight == Sub[panelSectionHeight,
                         IF StrictEquals[Num(row), Sub[ToNumber(props.verticalPanelCount), Num(1)]]
                         THEN Mul[bottomRailHeight, Rat(3, 2)]
                         ELSE IF row = 0
                              THEN Add[topRailHeight, Div[bottomRailHeight, Num(2)]]
                              ELSE bottomRailHeight]
  IN  [x |-> panelX, y |-> panelY, width |-> panelWidth, height |-> panelHeight,
       row |-> row, col |-> col]

\* One cell of panelAreas, as the loop body computes it.
panelArea(row, col) ==
  LET panelX == Add[Mul[Num(col), panelSectionWidth],
                    IF col = 0 THEN adjustedStileWidth
                    ELSE Div[adjustedStileWidth, Num(2)]]
      panelY == Add[Mul[Num(row), panelSectionHeight],
                    IF row = 0 THEN topRailHeight
                    ELSE Div[bottomRailHeight, Num(2)]]
      panelWidth == Sub[panelSectionWidth,
                        IF col = 0 \/ StrictEquals[Num(col), Sub[ToNumber(props.horizontalPanelCount), Num(1)]]
                        THEN Mul[adjustedStileWidth, Rat(3, 2)]
                        ELSE adjustedStileWidth]
      panelHeight == Sub[panelSectionHeight,
                         IF row = 0
                         THEN Add[topRailHeight, Div[bottomRailHeight, Num(2)]]
                         ELSE IF StrictEquals[Num(row), Sub[ToNumber(props.verticalPanelCount), Num(1)]]
                              THEN Mul[bottomRailHeight, Rat(3, 2)]
                              ELSE bottomRailHeight]
  IN  [x |-> panelX, y |-> panelY, width |-> panelWidth, height |-> panelHeight,
       row |-> row, col |-> col]

\* As panelAreas, with the loops nested the other way round (column-major).
panelAreas_columnMajor ==
  [k \in 1..(LoopLength[ToNumber(props.verticalPanelCount)] * LoopLength[ToNumber(props.horizontalPanelCount)]) |->
     panelArea((k - 1) % LoopLength[ToNumber(props.verticalPanelCount)],
               (k - 1) \div LoopLength[ToNumber(props.verticalPanelCount)])]

\* The cells in the order the nested loops push them (row-major).
panelAreas ==
  [k \in 1..(LoopLength[ToNumber(props.verticalPanelCount)] * LoopLength[ToNumber(props.horizontalPanelCount)]) |->
     panelArea((k - 1) \div LoopLength[ToNumber(props.horizontalPanelCount)],
               (k - 1) % LoopLength[ToNumber(props.horizontalPanelCount)])]

formattedPanelWidth ==
  IF props.useFractions THEN formatAsFraction(actualPanelWidth)
  ELSE toFixedText(actualPanelWidth, 1)

formattedPanelHeight ==
  IF props.useFractions THEN formatAsFraction(actualPanelHeight)
  ELSE toFixedText(actualPanelHeight, 1)

\* measurementArrows.panelWidthArrow: the arrow over the first panel cell, or
\* null without one.
null == [isNull |-> TRUE]
panelWidthArrow ==
  IF Lt[Num(0), ToNumber(props.horizontalPanelCount)] /\ Len(panelAreas) > 0
  THEN [x1 |-> panelAreas[1].x,
        y1 |-> Num(-15),
        x2 |-> Add[panelAreas[1].x, panelAreas[1].width],
        y2 |-> Num(-15),
        labelX |-> Add[panelAreas[1].x, Div[panelAreas[1].width, Num(2)]],
        labelY |-> Num(-20),
        label |-> formattedPanelWidth \o " " \o props.unitLabel]
  ELSE null

\* The options the template offers for a component: the rails' names for both
\* rails, and the three panel menus only inside the first panel cell.
menuOptions(component) ==
  CASE component \in {"topRail", "bottomRail"} -> dimensionOptions.rails
    [] component = "stiles" -> dimensionOptions.stiles
    [] component \in {"panelMoulding", "wainscotCap", "shoeMoulding"} ->
         dimensionOptions[component]
offeredOptions(component) ==
  IF component \in {"panelMoulding", "wainscotCap", "shoeMoulding"}
     /\ Len(panelAreas) = 0
  THEN {} ELSE menuOptions(component)

updateDimension(component, dimension) ==
  /\ edits > 0
  /\ edits' = edits - 1
  /\ dimension \in offeredOptions(component)
  /\ lumberDimensions' = [lumberDimensions EXCEPT ![component] = dimension]
  /\ UNCHANGED <<units, dims, counts, inputs, props, cv>>

\* ------------------------------------------------------------------------
\* Calls of the measurement utilities (pure functions), one per step
\* ------------------------------------------------------------------------

\* The arguments tried reach MaxK quarter steps of the unit's input step to
\* either side of each base value: on the rounding grid, a quarter of a step
\* to either side of a grid point, and half way between two grid points.
MaxK == 8
ConvBases == {Num(0), Num(10)}
ConvValues(sUnit, iUnit, mUnit) ==
  {Add[b, Mul[Rat(k, 4), getInputStep(sUnit, iUnit, mUnit)]] :
     b \in ConvBases, k \in (-MaxK)..MaxK}

NoCall ==
  [fn |-> "none", value |-> NaN, selectedUnit |-> "imperial",
   imperialUnit |-> "inches", metricUnit |-> "cm", mm |-> NaN, out |-> NaN,
   text |-> ""]

callConvertToMm(value, sUnit, iUnit, mUnit) ==
  /\ cv' = [fn |-> "convertToMm", value |-> value, selectedUnit |-> sUnit,
            imperialUnit |-> iUnit, metricUnit |-> mUnit, mm |-> NaN, text |-> "",
            out |-> convertToMm(value, sUnit, iUnit, mUnit)]
  /\ UNCHANGED <<units, dims, counts, inputs, props, lumberDimensions, edits>>

callConvertFromMm(valueMm, sUnit, iUnit, mUnit) ==
  /\ cv' = [fn |-> "convertFromMm", value |-> valueMm, selectedUnit |-> sUnit,
            imperialUnit |-> iUnit, metricUnit |-> mUnit, mm |-> NaN, text |-> "",
            out |-> convertFromMm(valueMm, sUnit, iUnit, mUnit)]
  /\ UNCHANGED <<units, dims, counts, inputs, props, lumberDimensions, edits>>

\* convertFromMm(convertToMm(value, s, u), s, u), as in the usage example.
callRoundTrip(value, sUnit, iUnit, mUnit) ==
  LET mm == convertToMm(value, sUnit, iUnit, mUnit)
  IN  /\ cv' = [fn |-> "roundTrip", value |-> value, selectedUnit |-> sUnit,
                imperialUnit |-> iUnit, metricUnit |-> mUnit, mm |-> mm, text |-> "",
                out |-> convertFromMm(mm, sUnit, iUnit, mUnit)]
      /\ UNCHANGED <<units, dims, counts, inputs, props, lumberDimensions, edits>>

\* ------------------------------------------------------------------------
\* Specifications
\* ------------------------------------------------------------------------

\* What is typed into a dimension field: a number, or nothing (the field
\* cleared, which reaches the handler as the empty string).  The numbers tried
\* are two round sizes as written in the unit on display (250 mm and 1000 mm
\* in the metric units, 10 in and 40 in, 1 ft and 16 ft) and, in inches, one
\* that is not a whole number of sixteenths.
RawNumbers(sUnit, iUnit, mUnit) ==
  IF sUnit = "imperial"
  THEN IF iUnit = "inches" THEN {Num(10), Num(40), Rat(123, 10)}
       ELSE {Num(1), Num(16)}
  ELSE IF mUnit = "mm" THEN {Num(250), Num(1000)}
       ELSE IF mUnit = "cm" THEN {Num(25), Num(100)}
       ELSE {Rat(25, 100), Num(1)}

RawInputs ==
  {JSNumber(a) : a \in RawNumbers(selectedUnit, imperialUnit, metricUnit)}
    \cup {EmptyString}

PanelCountInputs == {Num(i) : i \in 0..MaxPanelInput} \cup {EmptyString}

\* The refs as the component's setup creates them.
InitRefs ==
  /\ selectedUnit = "imperial"
  /\ imperialUnit = "inches"
  /\ metricUnit = "cm"
  /\ wallHeightMm = Num(1854)
  /\ wallWidthMm = Num(889)
  /\ chairRailHeightMm = Num(102)
  /\ wainscotCapHeightMm = Num(19)
  /\ railHeightMm = Num(51)
  /\ stileWidthMm = Num(76)
  /\ panelMoldingWidthMm = Num(19)
  /\ baseboardHeightMm = Num(152)
  /\ shoeMoldingHeightMm = Num(19)
  /\ horizontalPanelCount = Num(3)
  /\ verticalPanelCount = Num(1)
  /\ lumberDimensions =
       [topRail |-> "1x4", bottomRail |-> "1x2", stiles |-> "1x3",
        panelMoulding |-> "3/4x3/4", wainscotCap |-> "1x2",
        shoeMoulding |-> "3/8x3/4"]

\* onMounted: initializeInputValues
InitMounted ==
  /\ wallWidthInput = toString(wallWidth)
  /\ wallHeightInput = toString(wallHeight)
  /\ chairRailHeightInput = toString(chairRailHeight)
  /\ wainscotCapHeightInput = toString(wainscotCapHeight)
  /\ railHeightInput = toString(railHeight)
  /\ stileWidthInput = toString(stileWidth)
  /\ panelMoldingWidthInput = toString(panelMoldingWidth)
  /\ baseboardHeightInput = toString(baseboardHeight)
  /\ shoeMoldingHeightInput = toString(shoeMoldingHeight)

\* The visualizer, mounted, with its layout rendered.
Init ==
  /\ InitRefs
  /\ InitMounted
  /\ props = layoutProps
  /\ cv = NoCall
  /\ edits = MaxEdits

Next ==
  \/ \E value \in RawInputs : updateWallHeight(value)
  \/ \E value \in RawInputs : updateWallWidth(value)
  \/ \E value \in RawInputs : updateChairRailHeight(value)
  \/ \E value \in RawInputs : updateWainscotCapHeight(value)
  \/ \E value \in RawInputs : updateRailHeight(value)
  \/ \E value \in RawInputs : updateStileWidth(value)
  \/ \E value \in RawInputs : updatePanelMoldingWidth(value)
  \/ \E value \in RawInputs : updateBaseboardHeight(value)
  \/ \E value \in RawInputs : updateShoeMoldingHeight(value)
  \/ \E unit \in MeasurementUnit : setSelectedUnit(unit)
  \/ \E unit \in ImperialUnit : setImperialUnit(unit)
  \/ \E unit \in MetricUnit : setMetricUnit(unit)
  \/ \E count \in PanelCountInputs : setHorizontalPanelCount(count)
  \/ \E count \in PanelCountInputs : setVerticalPanelCount(count)
  \/ \E component \in DOMAIN lumberDimensions :
       \E dimension \in menuOptions(component) :
         updateDimension(component, dimension)

Spec == Init /\ [][Next]_vars

\* The layout component alone, rendered with props of any parent: drawing
\* sizes in pixels, and panel counts from 1 up.
LayoutWidths == {Num(900), Num(960)}
LayoutHeights == {Num(600)}
LayoutStileWidths == {Num(0), Num(60), Num(240), Num(400)}
LayoutRailHeights == {Num(40), Rat(51, 2)}

InitLayout ==
  /\ InitRefs
  /\ InitMounted
  /\ \E w \in LayoutWidths, h \in LayoutHeights, s \in LayoutStileWidths,
        r \in LayoutRailHeights, hc \in 1..MaxPanelInput, vc \in 1..MaxPanelInput :
       props = [wainscotWidth |-> w, wainscotHeight |-> h, stileWidth |-> s,
                railHeight |-> r, panelMoldingWidth |-> Num(10),
                horizontalPanelCount |-> Num(hc), verticalPanelCount |-> Num(vc),
                unitLabel |-> "mm", actualWallWidth |-> w,
                actualWallHeight |-> h, actualStileWidth |-> s,
                actualRailHeight |-> r, useFractions |-> FALSE]
  /\ cv = NoCall
  /\ edits = MaxEdits

NextLayout ==
  \E component \in DOMAIN lumberDimensions :
    \E dimension \in menuOptions(component) :
      updateDimension(component, dimension)

SpecLayout == InitLayout /\ [][NextLayout]_vars

\* The visualizer's wall-height and chair-rail fields edited one after the
\* other, with an edit of another field (the rail height) and changes of the
\* measurement system and the imperial unit between them.
InitChairRail ==
  /\ InitRefs
  /\ InitMounted
  /\ props = layoutProps
  /\ cv = NoCall
  /\ edits = MaxHeightEdits

NextChairRail ==
  \/ \E value \in RawInputs : updateWallHeight(value)
  \/ \E value \in RawInputs : updateChairRailHeight(value)
  \/ \E value \in RawInputs : updateRailHeight(value)
  \/ \E unit \in MeasurementUnit : setSelectedUnit(unit)
  \/ \E unit \in ImperialUnit : setImperialUnit(unit)

SpecChairRail == InitChairRail /\ [][NextChairRail]_vars

\* The layout's lumber menus used several times in a row, on props with a
\* rail height and a stile width of zero among them.
LumberRailHeights == {Num(0), Num(40), Rat(51, 2)}
LumberStileWidths == {Num(0), Num(60)}

InitLumber ==
  /\ InitRefs
  /\ InitMounted
  /\ \E s \in LumberStileWidths, r \in LumberRailHeights :
       props = [wainscotWidth |-> Num(960), wainscotHeight |-> Num(600),
                stileWidth |-> s, railHeight |-> r,
                panelMoldingWidth |-> Num(10),
                horizontalPanelCount |-> Num(3), verticalPanelCount |-> Num(2),
                unitLabel |-> "mm", actualWallWidth |-> Num(960),
                actualWallHeight |-> Num(600), actualStileWidth |-> s,
                actualRailHeight |-> r, useFractions |-> FALSE]
  /\ cv = NoCall
  /\ edits = MaxSelections

SpecLumber == InitLumber /\ [][NextLayout]_vars

\* The arguments of roundToNearestFraction: thirty-seconds to either side of
\* each base value (on the sixteenth grid and half way between two grid
\* points; a thirty-second times 16 is exact in binary, so the tie is a tie
\* in the code as well), and a decimal off the grid.
RoundValues ==
  {Add[b, Rat(k, 32)] : b \in ConvBases, k \in (-MaxK)..MaxK} \cup {Rat(123, 10)}

callRoundToNearestFraction(value, sUnit, iUnit) ==
  /\ cv' = [fn |-> "roundToNearestFraction", value |-> value,
            selectedUnit |-> sUnit, imperialUnit |-> iUnit,
            metricUnit |-> NoCall.metricUnit, mm |-> NaN, text |-> "",
            out |-> roundToNearestFraction(value, sUnit, iUnit)]
  /\ UNCHANGED <<units, dims, counts, inputs, props, lumberDimensions, edits>>

\* The arguments of formatImperialMeasurement: every thirty-second of a unit
\* above each whole part (all fifteen glyphs, the ties between them and the
\* carry at 31/32), decimals off that grid, and the numbers at the ends of
\* the range: the largest whole part that still has thirty-seconds (2^47),
\* whole numbers whose numeral is no longer every digit (2^53, 2^60) or is
\* written with an exponent (10^21, 1.5 * 10^21), a negative number next to
\* zero, -0, the infinities and NaN.
FormatWholeParts == {Num(0), Num(1), Num(10), Num(-1)}
FormatEndValues ==
  {Add[Mul[Num(Pow2[30]), Num(Pow2[17])], Rat(k, 32)] : k \in {0, 8, 31}}
    \cup {Mul[Num(Pow2[30]), Num(Pow2[23])], Mul[Num(Pow2[30]), Num(Pow2[30])],
          TenTo21, Mul[TenTo21, Rat(3, 2)], Rat(-1, Pow2[30]), Zero(TRUE),
          Infinity, Inf(TRUE), NaN}
FormatValues ==
  {Add[b, Rat(k, 32)] : b \in FormatWholeParts, k \in 0..31}
    \cup {Rat(3, 10), Rat(123, 10), Rat(97, 100), Rat(1099, 100)}
    \cup FormatEndValues

callFormatImperialMeasurement(value, iUnit) ==
  /\ cv' = [fn |-> "formatImperialMeasurement", value |-> value,
            selectedUnit |-> "imperial", imperialUnit |-> iUnit,
            metricUnit |-> NoCall.metricUnit, mm |-> NaN, out |-> NaN,
            text |-> formatImperialMeasurement(value, iUnit)]
  /\ UNCHANGED <<units, dims, counts, inputs, props, lumberDimensions, edits>>

callFormatAsFraction(value) ==
  /\ cv' = [fn |-> "formatAsFraction", value |-> value,
            selectedUnit |-> "imperial", imperialUnit |-> "inches",
            metricUnit |-> NoCall.metricUnit, mm |-> NaN, out |-> NaN,
            text |-> formatAsFraction(value)]
  /\ UNCHANGED <<units, dims, counts, inputs, props, lumberDimensions, edits>>

\* The measurement utilities alone.  They are pure functions: what a call
\* returns depends on its arguments only, so a behaviour records one call.
NextConv ==
  \/ \E sUnit \in MeasurementUnit, iUnit \in ImperialUnit, mUnit \in MetricUnit :
       \/ /\ cv = NoCall
          /\ \E value \in ConvValues(sUnit, iUnit, mUnit) :
               callConvertToMm(value, sUnit, iUnit, mUnit)
       \/ /\ cv = NoCall
          /\ \E value \in ConvValues(sUnit, iUnit, mUnit) :
               callConvertFromMm(convertToMm(value, sUnit, iUnit, mUnit),
                                 sUnit, iUnit, mUnit)
       \/ /\ cv = NoCall
          /\ \E value \in ConvValues(sUnit, iUnit, mUnit) :
               callRoundTrip(value, sUnit, iUnit, mUnit)
  \/ /\ cv = NoCall
     /\ \E sUnit \in MeasurementUnit, iUnit \in ImperialUnit, value \in RoundValues :
          callRoundToNearestFraction(value, sUnit, iUnit)
  \/ /\ cv = NoCall
     /\ \E iUnit \in ImperialUnit, value \in FormatValues :
          callFormatImperialMeasurement(value, iUnit)
  \/ /\ cv = NoCall
     /\ \E value \in FormatValues : callFormatAsFraction(value)

SpecConv == Init /\ [][NextConv]_vars

\* ------------------------------------------------------------------------
\* Geometry used to state the layout claims
\* ------------------------------------------------------------------------

RECURSIVE SumOf(_)
SumOf(seq) == IF seq = <<>> THEN Num(0) ELSE Add[Head(seq), SumOf(Tail(seq))]

Right(r) == Add[r.x, r.width]
Bottom(r) == Add[r.y, r.height]

\* The two rectangles share a region of positive area.
Overlap(a, b) ==
  /\ Lt[MathMax[a.x, b.x], MathMin[Right(a), Right(b)]]
  /\ Lt[MathMax[a.y, b.y], MathMin[Bottom(a), Bottom(b)]]

\* The point (px, py) lies in the rectangle, its edges included.
Covers(r, px, py) ==
  /\ Le[r.x, px] /\ Le[px, Right(r)]
  /\ Le[r.y, py] /\ Le[py, Bottom(r)]

Range(f) == {f[i] : i \in DOMAIN f}

PanelCells == Range(panelAreas)
FrameMembers ==
  {outerFrame.topRail, outerFrame.bottomRail, outerFrame.leftStile,
   outerFrame.rightStile} \cup Range(innerStiles) \cup Range(innerRails)
Geometry(r) == [x |-> r.x, y |-> r.y, width |-> r.width, height |-> r.height]
AllRectangles == FrameMembers \cup {Geometry(p) : p \in PanelCells}

AllPanelsPositive ==
  \A p \in PanelCells : Lt[Num(0), p.width] /\ Lt[Num(0), p.height]

\* The wall is cut by every rectangle edge into elementary cells; the wall is
\* covered when the centre of each elementary cell lies in some rectangle.
WallXs ==
  {x \in {r.x : r \in AllRectangles} \cup {Right(r) : r \in AllRectangles}
         \cup {Num(0), props.wainscotWidth} :
     Le[Num(0), x] /\ Le[x, props.wainscotWidth]}
WallYs ==
  {y \in {r.y : r \in AllRectangles} \cup {Bottom(r) : r \in AllRectangles}
         \cup {Num(0), props.wainscotHeight} :
     Le[Num(0), y] /\ Le[y, props.wainscotHeight]}
Adjacent(S, lo, hi) == Lt[lo, hi] /\ ~\E m \in S : Lt[lo, m] /\ Lt[m, hi]
Mid(lo, hi) == Div[Add[lo, hi], Num(2)]
WallCovered ==
  \A x1 \in WallXs, x2 \in WallXs :
    Adjacent(WallXs, x1, x2) =>
      \A y1 \in WallYs, y2 \in WallYs :
        Adjacent(WallYs, y1, y2) =>
          \E r \in AllRectangles : Covers(r, Mid(x1, x2), Mid(y1, y2))

\* ------------------------------------------------------------------------
\* Claims
\* ------------------------------------------------------------------------

\* Equality up to the rounding of double arithmetic: the two numbers differ
\* by no more than 2^-30 of the size they are measured against.
RoundingTolerance == Div[Num(1), Num(Pow2[30])]
Near(a, b, size) ==
  Le[RatAbs[Sub[a, b]], Mul[RoundingTolerance, RatAbs[size]]]

\* The numbers of columns and rows the layout's loops produce.
Columns == LoopLength[ToNumber(props.horizontalPanelCount)]
Rows == LoopLength[ToNumber(props.verticalPanelCount)]

\* C1: in each row of panelAreas the panel-cell widths plus the widths of the
\* stiles crossing the row (left, right and the inner stiles) add up to
\* wainscotWidth, for every horizontalPanelCount >= 1 and stile width >= 0
\* (the sum of doubles compared up to its rounding).
C1_RowWidthsTileWall ==
  \A row \in 0..(Rows - 1) :
    Near(Add[SumOf([c \in 1..Columns |->
                      panelAreas[row * Columns + c].width]),
             Add[Add[outerFrame.leftStile.width, outerFrame.rightStile.width],
                 SumOf([i \in DOMAIN innerStiles |-> innerStiles[i].width])]],
         props.wainscotWidth, props.wainscotWidth)

\* C2: when every panel has positive size, the frame, the dividers and the
\* panel cells exactly tile the wall: each cell lies inside the wall, overlaps
\* no rail or stile (outer or inner), and every point of the wall is covered.
C2_ExactTiling ==
  AllPanelsPositive =>
    /\ \A p \in PanelCells :
         /\ Le[Num(0), p.x] /\ Le[Right(p), props.wainscotWidth]
         /\ Le[Num(0), p.y] /\ Le[Bottom(p), props.wainscotHeight]
         /\ \A m \in FrameMembers : ~Overlap(p, m)
    /\ WallCovered

\* C3: when every panel has positive size, no two distinct panel cells
\* overlap; horizontal neighbours are one stile width apart and vertical
\* neighbours one bottom-rail height apart, up to the rounding of the double
\* arithmetic that places the cells.
C3_PanelsDisjoint ==
  AllPanelsPositive =>
    \A p \in PanelCells, q \in PanelCells :
      /\ p # q => ~Overlap(p, q)
      /\ (q.row = p.row /\ q.col = p.col + 1) =>
           Near(Sub[q.x, Right(p)], props.stileWidth, props.wainscotWidth)
      /\ (q.col = p.col /\ q.row = p.row + 1) =>
           Near(Sub[q.y, Bottom(p)], props.railHeight, props.wainscotHeight)

\* A grid of several rows and columns, its members of positive thickness and
\* its panels of positive size, after a lumber selection.
C3_Witness ==
  /\ Columns >= 3
  /\ Rows >= 2
  /\ Lt[Num(0), props.stileWidth]
  /\ Lt[Num(0), props.railHeight]
  /\ AllPanelsPositive
  /\ lumberDimensions.topRail = "1x6"

\* The chair-rail ceiling for a wall height, as the claims state it:
\* min(wall height / 5, 32 in), 32 in being 812.8 mm.
ChairRailCeiling(heightMm) == MathMin[Div[heightMm, Num(5)], Rat(8128, 10)]

\* C4: after a change of wallHeightMm (and its watcher) chairRailHeightMm is
\* at most the ceiling of the new wall height; when it was above that ceiling
\* it is now exactly the ceiling; the change never raises it.
C4_WallHeightChangeClamps ==
  [][wallHeightMm' # wallHeightMm =>
       /\ Le[chairRailHeightMm', ChairRailCeiling(wallHeightMm')]
       /\ Lt[ChairRailCeiling(wallHeightMm'), chairRailHeightMm] =>
            chairRailHeightMm' = ChairRailCeiling(wallHeightMm')
       /\ Le[chairRailHeightMm', chairRailHeightMm]]_vars

\* A wall height was typed and the chair rail, no longer at its default, sits
\* exactly on the ceiling of the new wall height.
C4_Witness ==
  /\ wallHeightInput.type = "number"
  /\ wallHeightMm # Num(1854)
  /\ chairRailHeightMm # Num(102)
  /\ chairRailHeightMm = ChairRailCeiling(wallHeightMm)

\* C5: when wallHeightMm changes and the chair-rail height is within the
\* ceiling of the new wall height, the chair-rail height is left as it was.
C5_ValidChairRailUntouched ==
  [][(/\ wallHeightMm' # wallHeightMm
      /\ Le[chairRailHeightMm, ChairRailCeiling(wallHeightMm')]) =>
       chairRailHeightMm' = chairRailHeightMm]_vars

\* A wall height was typed, the chair rail kept its default of 102 mm, which
\* is below the ceiling without being the recommended fifth.
C5_Witness ==
  /\ wallHeightInput.type = "number"
  /\ wallHeightMm # Num(1854)
  /\ chairRailHeightMm = Num(102)
  /\ Lt[chairRailHeightMm, ChairRailCeiling(wallHeightMm)]

\* The value a dimension handler stores for a typed number: the number,
\* brought to the nearest sixteenth when the unit is inches, times the unit's
\* millimetres.
MmPerUnit(sUnit, iUnit, mUnit) ==
  IF sUnit = "imperial"
  THEN IF iUnit = "inches" THEN Rat(254, 10) ELSE Rat(3048, 10)
  ELSE IF mUnit = "mm" THEN Num(1)
       ELSE IF mUnit = "cm" THEN Num(10) ELSE Num(1000)
StoredFor(a) ==
  Mul[IF selectedUnit = "imperial" /\ imperialUnit = "inches"
      THEN Div[MathRound[Mul[a, Num(16)]], Num(16)] ELSE a,
      MmPerUnit(selectedUnit, imperialUnit, metricUnit)]

\* C6: a chair-rail edit is never rejected or clamped: the handler stores the
\* converted value of any number typed, above the ceiling or not; in every
\* state isChairRailHeightValid is true exactly when chairRailHeightMm is at
\* most the ceiling; an invalid value stays as it is through every step that
\* neither changes the wall height nor edits the chair rail, an edit of
\* another field among them; and a change of the wall height ends it: the
\* value is valid afterwards.
C6_ChairRailEditNeverClamped ==
  /\ [](isChairRailHeightValid <=>
          Le[chairRailHeightMm, ChairRailCeiling(wallHeightMm)])
  /\ [][/\ \A value \in RawInputs :
             (updateChairRailHeight(value) /\ ~isNaN(value.num)) =>
               chairRailHeightMm' = StoredFor(value.num)
        /\ (/\ ~isChairRailHeightValid
            /\ wallHeightMm' = wallHeightMm
            /\ ~\E value \in RawInputs : updateChairRailHeight(value)) =>
             chairRailHeightMm' = chairRailHeightMm
        /\ (/\ ~isChairRailHeightValid
            /\ wallHeightMm' # wallHeightMm) =>
             isChairRailHeightValid']_vars

\* 40 in was typed into the chair-rail field and stored (1016 mm, above the
\* ceiling of 370.8 mm), and then an edit of the rail height left it there,
\* flagged invalid.
C6_Witness ==
  /\ edits = 0
  /\ chairRailHeightInput = JSNumber(Num(40))
  /\ railHeightInput.type = "number"
  /\ wallHeightMm = Num(1854)
  /\ chairRailHeightMm = Num(1016)
  /\ Lt[ChairRailCeiling(wallHeightMm), chairRailHeightMm]
  /\ ~isChairRailHeightValid

\* C7: a change of the unit preference (selectedUnit, imperialUnit or
\* metricUnit) leaves the nine millimetre dimensions and both panel counts
\* unchanged.
C7_UnitChangeKeepsCanonical ==
  [][units' # units => dims' = dims /\ counts' = counts]_vars

\* After an edit the preference was changed in both its parts; the wall
\* width shows in metres (0.889) while still stored as 889 mm.
C7_Witness ==
  /\ edits = MaxEdits - 1
  /\ selectedUnit = "metric"
  /\ metricUnit = "m"
  /\ imperialUnit = "feet"
  /\ wallWidthMm = Num(889)
  /\ wallWidth = Rat(889, 1000)

\* The rounding step of a unit, as the claims state it: 1/16 in, 0.01 ft,
\* 1 mm, 0.1 cm, 0.001 m.
GridStep(sUnit, iUnit, mUnit) ==
  IF sUnit = "imperial"
  THEN IF iUnit = "inches" THEN Rat(1, 16) ELSE Rat(1, 100)
  ELSE IF mUnit = "mm" THEN Num(1)
       ELSE IF mUnit = "cm" THEN Rat(1, 10) ELSE Rat(1, 1000)
IsMultipleOf(a, step) == IsInteger(Div[a, step])
\* The decimal places of a unit's grid (the inch grid is binary).
GridDigits(sUnit, iUnit, mUnit) ==
  IF sUnit = "imperial" THEN 2
  ELSE IF mUnit = "mm" THEN 0 ELSE IF mUnit = "cm" THEN 1 ELSE 3
\* A number on the grid of a unit: a whole number of sixteenths of an inch
\* (exact in binary), or the double of a numeral with the unit's decimal
\* places, which is what a multiple of 0.01, 0.1 or 0.001 is among doubles.
OnGrid(a, sUnit, iUnit, mUnit) ==
  IF sUnit = "imperial" /\ iUnit = "inches" THEN IsInteger(Mul[a, Num(16)])
  ELSE StrictEquals[a, toFixed[a, GridDigits(sUnit, iUnit, mUnit)]]
\* Half a step, and half a step widened by the rounding of double arithmetic.
HalfStep(sUnit, iUnit, mUnit) == Div[GridStep(sUnit, iUnit, mUnit), Num(2)]
HalfStepRounded(sUnit, iUnit, mUnit) ==
  Mul[HalfStep(sUnit, iUnit, mUnit), Add[Num(1), RoundingTolerance]]

C9_FromMmRoundsToGrid ==
  cv.fn = "convertFromMm" =>
    /\ OnGrid(cv.out, cv.selectedUnit, cv.imperialUnit, cv.metricUnit)
    /\ Le[RatAbs[Sub[cv.out,
                     Div[cv.value,
                         MmPerUnit(cv.selectedUnit, cv.imperialUnit, cv.metricUnit)]]],
          HalfStepRounded(cv.selectedUnit, cv.imperialUnit, cv.metricUnit)]

\* A conversion to feet of a length that is not a whole number of hundredths
\* of a foot: the result differs from the quotient.
C9_Witness ==
  /\ cv.fn = "convertFromMm"
  /\ cv.selectedUnit = "imperial"
  /\ cv.imperialUnit = "feet"
  /\ cv.out # Div[cv.value, Rat(3048, 10)]

\* C10: convertToMm multiplies by the unit's fixed factor (25.4, 304.8, 1, 10,
\* 1000) and rounds nothing.
C10_ToMmMultiplies ==
  cv.fn = "convertToMm" =>
    cv.out = Mul[cv.value,
                 MmPerUnit(cv.selectedUnit, cv.imperialUnit, cv.metricUnit)]

\* A conversion from inches whose result is not a whole number of
\* millimetres.
C10_Witness ==
  /\ cv.fn = "convertToMm"
  /\ cv.selectedUnit = "imperial"
  /\ cv.imperialUnit = "inches"
  /\ ~IsInteger(cv.out)

\* C11: roundToNearestFraction gives the same result applied twice as once;
\* for imperial inches the result is the nearest multiple of 1/16 (a
\* multiple of 1/16 no further than 1/32 from the argument); for imperial
\* feet and for metric it is the argument.
C11_RoundIdempotent ==
  cv.fn = "roundToNearestFraction" =>
    /\ roundToNearestFraction(cv.out, cv.selectedUnit, cv.imperialUnit) = cv.out
    /\ IF cv.selectedUnit = "imperial" /\ cv.imperialUnit = "inches"
       THEN /\ IsMultipleOf(cv.out, Rat(1, 16))
            /\ Le[RatAbs[Sub[cv.out, cv.value]], Rat(1, 32)]
       ELSE cv.out = cv.value

\* An inch value half way between two sixteenths (10 1/32) was rounded, up
\* to 10 1/16.
C11_Witness ==
  /\ cv.fn = "roundToNearestFraction"
  /\ cv.selectedUnit = "imperial"
  /\ cv.imperialUnit = "inches"
  /\ cv.value = Rat(321, 32)
  /\ cv.out = Rat(161, 16)

\* The glyph for k sixteenths, as the claims name it (by its ASCII name).
GlyphOf(k) ==
  <<"1/16", "1/8", "3/16", "1/4", "5/16", "3/8", "7/16", "1/2",
    "9/16", "5/8", "11/16", "3/4", "13/16", "7/8", "15/16">>[k]
\* Whole part and sixteenths (rounded) of a finite inch value.
WholeOf(a) == MathFloor[a]
SixteenthsOf(a) == IntOf[MathRound[Mul[Sub[a, MathFloor[a]], Num(16)]]]
\* The decimal string of a whole number: every digit of it, a minus sign
\* before a negative one.
DecimalString(n) ==
  IF IsZero(n) THEN "0"
  ELSE (IF n.neg THEN "-" ELSE "") \o BigToText[BShl[n.mant, n.exp]]
\* 2^53: up to it every whole number is a double.
LargestExactWhole == Mul[Num(Pow2[30]), Num(Pow2[23])]

\* C12 as stated: for inches and a non-negative value with whole part n whose
\* fractional part rounds to k sixteenths, formatImperialMeasurement returns
\* the decimal string of n when k = 0, the glyph of k/16 when n = 0 and
\* 1 <= k <= 15, and n, one space and the glyph when n >= 1 and 1 <= k <= 15.
C12_FormatInchesOfAnySize ==
  (/\ cv.fn = "formatImperialMeasurement"
   /\ cv.imperialUnit = "inches"
   /\ isFinite(cv.value)
   /\ Le[Num(0), cv.value]) =>
    LET n == WholeOf(cv.value)
        k == SixteenthsOf(cv.value)
    IN  /\ k = 0 => cv.text = DecimalString(n)
        /\ (IsZero(n) /\ k \in 1..15) => cv.text = GlyphOf(k)
        /\ (Le[Num(1), n] /\ k \in 1..15) =>
             cv.text = DecimalString(n) \o " " \o GlyphOf(k)

\* C12: the same for a value with a whole part n of at most 2^53.  (A larger
\* n is written with the fewest digits that read back as n, followed by
\* zeros, and from 10^21 on with an exponent.)
C12_FormatInches ==
  (/\ cv.fn = "formatImperialMeasurement"
   /\ cv.imperialUnit = "inches"
   /\ isFinite(cv.value)
   /\ Le[Num(0), cv.value]
   /\ Le[WholeOf(cv.value), LargestExactWhole]) =>
    LET n == WholeOf(cv.value)
        k == SixteenthsOf(cv.value)
    IN  /\ k = 0 => cv.text = DecimalString(n)
        /\ (IsZero(n) /\ k \in 1..15) => cv.text = GlyphOf(k)
        /\ (Le[Num(1), n] /\ k \in 1..15) =>
             cv.text = DecimalString(n) \o " " \o GlyphOf(k)

\* 10.25 inches was formatted, as "10 1/4".
C12_Witness ==
  /\ cv.fn = "formatImperialMeasurement"
  /\ cv.imperialUnit = "inches"
  /\ cv.value = Rat(1025, 100)
  /\ cv.text = "10 1/4"

\* C13: for inches, when the fractional part is at least 31/32 (it rounds to
\* sixteen sixteenths) the result is the string of the whole part plus one,
\* with no glyph; no result carries a fraction of 16/16: a value whose whole
\* part is within 2^53 of zero gives a whole number, a glyph of 1 to 15
\* sixteenths, or both.
C13_CarryIntoWhole ==
  (/\ cv.fn = "formatImperialMeasurement"
   /\ cv.imperialUnit = "inches"
   /\ isFinite(cv.value)) =>
    LET n == WholeOf(cv.value)
        k == SixteenthsOf(cv.value)
    IN  /\ k = 16 => cv.text = DecimalString(Add[n, Num(1)])
        /\ k \in 0..16
        /\ Le[RatAbs[n], LargestExactWhole] =>
             \/ cv.text \in {DecimalString(n), DecimalString(Add[n, Num(1)])}
             \/ \E g \in 1..15 :
                  cv.text \in {GlyphOf(g), DecimalString(n) \o " " \o GlyphOf(g)}

\* 2^47 + 31/32 inches, the largest whole part under which a double has
\* thirty-seconds, was formatted as 2^47 + 1.
C13_Witness ==
  /\ cv.fn = "formatImperialMeasurement"
  /\ cv.imperialUnit = "inches"
  /\ cv.value = Add[Mul[Num(Pow2[30]), Num(Pow2[17])], Rat(31, 32)]
  /\ cv.text = "140737488355329"

\* A step of one of the nine update functions on a raw input.
IsUpdate(value) ==
  \/ updateWallHeight(value) \/ updateWallWidth(value)
  \/ updateChairRailHeight(value) \/ updateWainscotCapHeight(value)
  \/ updateRailHeight(value) \/ updateStileWidth(value)
  \/ updatePanelMoldingWidth(value) \/ updateBaseboardHeight(value)
  \/ updateShoeMoldingHeight(value)

\* C14: when the raw input handed to one of the nine update functions does
\* not parse to a number, the nine millimetre values, the unit preference,
\* the panel counts, the lumber selection and the layout's props are all
\* left as they were; of the input buffers only the edited field's own, which
\* the field binding has set to the raw input, differs.
C14_NaNInputIgnored ==
  [][\A value \in RawInputs :
       (isNaN(numValueOf(value)) /\ IsUpdate(value)) =>
         /\ dims' = dims
         /\ units' = units
         /\ counts' = counts
         /\ lumberDimensions' = lumberDimensions
         /\ props' = props
         /\ Cardinality({i \in 1..Len(inputs) : inputs'[i] # inputs[i]}) <= 1
         /\ \A i \in 1..Len(inputs) : inputs'[i] # inputs[i] => inputs'[i] = value]_vars

\* A rail height field was emptied: the buffer holds the empty string and
\* the rail height is still 51 mm.
C14_Witness ==
  /\ edits = MaxEdits - 1
  /\ railHeightInput = EmptyString
  /\ railHeightMm = Num(51)

\* The rectangles the layout draws.
RectangleSet == <<outerFrame, innerStiles, innerRails, panelAreas>>

\* C15: the rectangles are a function of the layout's inputs alone: across
\* every step that leaves the props as they were (a lumber selection through
\* updateDimension among them) the outer frame, the dividers and the panel
\* cells are the same before and after.
C15_RectanglesFromPropsAlone ==
  [][props' = props => RectangleSet' = RectangleSet]_vars

\* What does hold: the rectangles are the same across every selection other
\* than the two rails', whose ratio sets the top rail's height.
C15_OnlyRailSelectionsMatter ==
  [][(/\ props' = props
      /\ lumberDimensions'.topRail = lumberDimensions.topRail
      /\ lumberDimensions'.bottomRail = lumberDimensions.bottomRail)
       => RectangleSet' = RectangleSet]_vars

\* C16: in every state horizontalPanelCount is an integer in 1..10 and
\* verticalPanelCount an integer in 1..5, and the counts the layout divides
\* by are not zero.
C16_PanelCountsInRange ==
  /\ horizontalPanelCount \in {Num(i) : i \in 1..10}
  /\ verticalPanelCount \in {Num(i) : i \in 1..5}
  /\ ~IsZero(ToNumber(props.horizontalPanelCount))
  /\ ~IsZero(ToNumber(props.verticalPanelCount))

\* Section sizes and member thicknesses as the claims name them, from the
\* props.
SectionWidth == Div[props.wainscotWidth, ToNumber(props.horizontalPanelCount)]
SectionHeight == Div[props.wainscotHeight, ToNumber(props.verticalPanelCount)]
StileThickness == props.stileWidth
BottomRailThickness == props.railHeight
TopRailThickness ==
  Div[Mul[getDimensionValue(lumberDimensions.topRail), props.railHeight],
      getDimensionValue(lumberDimensions.bottomRail)]

\* C17: innerStiles holds horizontalPanelCount - 1 rectangles and innerRails
\* verticalPanelCount - 1; the i-th inner stile is at
\* x = i * sectionWidth - stileWidth / 2, y = 0, stileWidth wide and as high
\* as the wall (x = 270 for the first of 3 columns, width 900, stile 60); the
\* i-th inner rail is at x = 0, y = i * sectionHeight - bottomRailHeight / 2,
\* as wide as the wall and bottomRailHeight high.
C17_InnerDividers ==
  /\ DOMAIN innerStiles = 1..(Columns - 1)
  /\ DOMAIN innerRails = 1..(Rows - 1)
  /\ \A i \in DOMAIN innerStiles :
       innerStiles[i] =
         [x |-> Sub[Mul[Num(i), SectionWidth], Div[StileThickness, Num(2)]],
          y |-> Num(0), width |-> StileThickness,
          height |-> props.wainscotHeight]
  /\ \A i \in DOMAIN innerRails :
       innerRails[i] =
         [x |-> Num(0),
          y |-> Sub[Mul[Num(i), SectionHeight], Div[BottomRailThickness, Num(2)]],
          width |-> props.wainscotWidth, height |-> BottomRailThickness]
  /\ (/\ Columns = 3
      /\ props.wainscotWidth = Num(900)
      /\ props.stileWidth = Num(60)) => innerStiles[1].x = Num(270)

\* Three columns and two rows on a wall 900 wide with stiles of 60, after a
\* stile selection: dividers at x = 270 and x = 570, one inner rail.
C17_Witness ==
  /\ Columns = 3
  /\ Rows = 2
  /\ props.wainscotWidth = Num(900)
  /\ props.stileWidth = Num(60)
  /\ lumberDimensions.stiles = "1x8"
  /\ innerStiles[1].x = Num(270)
  /\ innerStiles[2].x = Num(570)
  /\ DOMAIN innerRails = {1}

\* C18: outerFrame is a top rail at (0, 0), as wide as the wall and of the
\* top-rail height; a bottom rail at y = wainscotHeight - bottomRailHeight,
\* as wide as the wall and bottomRailHeight high, ending on the wall's lower
\* edge; a left stile at x = 0 and a right stile at
\* x = wainscotWidth - stileWidth, both stileWidth wide and as high as the
\* wall, the right one ending on the wall's right edge.
C18_OuterFrame ==
  /\ outerFrame.topRail =
       [x |-> Num(0), y |-> Num(0), width |-> props.wainscotWidth,
        height |-> TopRailThickness]
  /\ outerFrame.bottomRail =
       [x |-> Num(0), y |-> Sub[props.wainscotHeight, BottomRailThickness],
        width |-> props.wainscotWidth, height |-> BottomRailThickness]
  /\ Bottom(outerFrame.bottomRail) = props.wainscotHeight
  /\ outerFrame.leftStile =
       [x |-> Num(0), y |-> Num(0), width |-> StileThickness,
        height |-> props.wainscotHeight]
  /\ outerFrame.rightStile =
       [x |-> Sub[props.wainscotWidth, StileThickness], y |-> Num(0),
        width |-> StileThickness, height |-> props.wainscotHeight]
  /\ Right(outerFrame.rightStile) = props.wainscotWidth

\* A frame with a 1x8 top rail over a 1x2 bottom rail of 40: the top rail is
\* 160 high, the bottom rail starts at 560 of 600.
C18_Witness ==
  /\ lumberDimensions.topRail = "1x8"
  /\ props.railHeight = Num(40)
  /\ props.stileWidth = Num(60)
  /\ outerFrame.topRail.height = Num(160)
  /\ outerFrame.bottomRail.y = Num(560)
  /\ outerFrame.rightStile.x = Sub[props.wainscotWidth, Num(60)]

\* C19: panelAreas holds verticalPanelCount * horizontalPanelCount cells, one
\* per (row, col) in row-major order; each cell has
\* x = col * sectionWidth + (stileWidth if col = 0, else stileWidth / 2) and
\* width = sectionWidth - (1.5 * stileWidth if col is the first or the last
\* column, else stileWidth).
C19_PanelColumns ==
  /\ DOMAIN panelAreas =
       1..(Rows * Columns)
  /\ \A row \in 0..(Rows - 1),
        col \in 0..(Columns - 1) :
       LET cell == panelAreas[row * Columns + col + 1]
       IN  /\ cell.row = row
           /\ cell.col = col
           /\ cell.x = Add[Mul[Num(col), SectionWidth],
                           IF col = 0 THEN StileThickness
                           ELSE Div[StileThickness, Num(2)]]
           /\ cell.width = Sub[SectionWidth,
                               IF col = 0 \/ col = Columns - 1
                               THEN Mul[Rat(3, 2), StileThickness]
                               ELSE StileThickness]

\* A grid of 2 rows by 3 columns, width 900 and stiles of 60, after a stile
\* selection: the fifth cell is row 1, column 1, at x = 330 and 240 wide.
C19_Witness ==
  /\ Columns = 3
  /\ Rows = 2
  /\ props.wainscotWidth = Num(900)
  /\ props.stileWidth = Num(60)
  /\ lumberDimensions.stiles = "1x2"
  /\ panelAreas[5].row = 1
  /\ panelAreas[5].col = 1
  /\ panelAreas[5].x = Num(330)
  /\ panelAreas[5].width = Num(240)

\* C20: each cell has y = row * sectionHeight + (topRailHeight if row = 0,
\* else bottomRailHeight / 2), the last row included; its height is
\* sectionHeight - (topRailHeight + bottomRailHeight / 2) for row 0 (also
\* when row 0 is the only row), sectionHeight - 1.5 * bottomRailHeight for
\* the last row when it is not row 0, and sectionHeight - bottomRailHeight
\* for every other row.
C20_PanelRows ==
  \A cell \in PanelCells :
    /\ cell.y = Add[Mul[Num(cell.row), SectionHeight],
                    IF cell.row = 0 THEN TopRailThickness
                    ELSE Div[BottomRailThickness, Num(2)]]
    /\ cell.height =
         Sub[SectionHeight,
             IF cell.row = 0
             THEN Add[TopRailThickness, Div[BottomRailThickness, Num(2)]]
             ELSE IF cell.row = Rows - 1
                  THEN Mul[Rat(3, 2), BottomRailThickness]
                  ELSE BottomRailThickness]

\* A single row 600 high with a top rail of 80 over a bottom rail of 40: the
\* cell starts at y = 80 and is 600 - (80 + 20) = 500 high.
C20_Witness ==
  /\ Rows = 1
  /\ props.wainscotHeight = Num(600)
  /\ props.railHeight = Num(40)
  /\ lumberDimensions.topRail = "1x4"
  /\ lumberDimensions.bottomRail = "1x2"
  /\ lumberDimensions.stiles = "1x6"
  /\ \A cell \in PanelCells : cell.y = Num(80) /\ cell.height = Num(500)

\* Half of the shorter wall dimension.
HalfShorterSide ==
  Div[MathMin[props.wainscotWidth, props.wainscotHeight], Num(2)]
\* The thickness is at least 0 and less than half the shorter wall dimension.
SaneThickness(t) == Le[Num(0), t] /\ Lt[t, HalfShorterSide]

\* C21: when the wall's width and height are positive, the counts are within
\* 1..10 and 1..5 and every member thickness (stile, bottom rail, top rail)
\* is at least 0 and less than half the shorter wall dimension, every panel
\* cell has a width and a height greater than 0.
C21_SaneThicknessGivesPositivePanels ==
  (/\ Lt[Num(0), props.wainscotWidth]
   /\ Lt[Num(0), props.wainscotHeight]
   /\ Columns \in 1..10
   /\ Rows \in 1..5
   /\ SaneThickness(props.stileWidth)
   /\ SaneThickness(props.railHeight)
   /\ SaneThickness(topRailHeight)) => AllPanelsPositive

\* C22: decimalToFraction and formatAsFraction return the same string for
\* the same input: the string formatAsFraction returned is the one
\* decimalToFraction gives for that value, and the string decimalToFraction
\* returned (through formatImperialMeasurement for inches) is the one
\* formatAsFraction gives.
C22_FormattersAgree ==
  /\ cv.fn = "formatAsFraction" => cv.text = decimalToFraction(cv.value)
  /\ (cv.fn = "formatImperialMeasurement" /\ cv.imperialUnit = "inches") =>
       cv.text = formatAsFraction(cv.value)

\* formatAsFraction of 12.3 gave "12 5/16", a value whose fraction is a table
\* key only after rounding.
C22_Witness ==
  /\ cv.fn = "formatAsFraction"
  /\ cv.value = Rat(123, 10)
  /\ cv.text = "12 5/16"

\* The text holds a decimal point.
HasDecimalPoint(text) == \E i \in 1..Len(text) : SubSeq(text, i, i) = "."

\* C26 as stated: for a non-negative inch value the fractional part after
\* rounding is 0, 1 or one of the fifteen table keys k/16; the toFixed(2)
\* fallback is not taken and the text holds no decimal point.
C26_NeverADecimalPoint ==
  (/\ cv.fn = "formatImperialMeasurement"
   /\ cv.imperialUnit = "inches"
   /\ isFinite(cv.value)
   /\ Le[Num(0), cv.value]) =>
    LET k == SixteenthsOf(cv.value)
    IN  /\ k \in 0..16
        /\ k \in 1..15 =>
             /\ Rat(k, 16) \in DOMAIN fractions
             /\ fractionText(Rat(k, 16)) = fractions[Rat(k, 16)]
        /\ ~HasDecimalPoint(cv.text)

\* C26: the fractional part after rounding is 0, 1 or one of the fifteen
\* table keys and the toFixed(2) fallback is not taken, for every
\* non-negative value; the text holds no decimal point when the value is
\* below 10^21.  (From 10^21 on the whole part is written with an exponent,
\* as in "1.5e+21".)
C26_FallbackNeverTaken ==
  (/\ cv.fn = "formatImperialMeasurement"
   /\ cv.imperialUnit = "inches"
   /\ isFinite(cv.value)
   /\ Le[Num(0), cv.value]) =>
    LET k == SixteenthsOf(cv.value)
    IN  /\ k \in 0..16
        /\ k \in 1..15 =>
             /\ Rat(k, 16) \in DOMAIN fractions
             /\ fractionText(Rat(k, 16)) = fractions[Rat(k, 16)]
             /\ cv.text \in {GlyphOf(k),
                             DecimalString(WholeOf(cv.value)) \o " " \o GlyphOf(k)}
        /\ k \in {0, 16} => cv.text = numberToText(Add[WholeOf(cv.value), Num(k \div 16)])
        /\ Lt[cv.value, TenTo21] => ~HasDecimalPoint(cv.text)

\* 1/16 inch, the smallest table key, was formatted as its glyph; the feet
\* format of the same run of values does hold a decimal point.
C26_Witness ==
  /\ cv.fn = "formatImperialMeasurement"
  /\ cv.imperialUnit = "inches"
  /\ cv.value = Rat(1, 16)
  /\ cv.text = "1/16"
  /\ HasDecimalPoint(toFixedText(cv.value, 2))

\* The nine buffers as initializeInputValues would fill them in the next
\* state: the string form of each display value in the unit then selected.
FreshInputs ==
  <<toString(wallWidth'), toString(wallHeight'), toString(chairRailHeight'),
    toString(wainscotCapHeight'), toString(railHeight'), toString(stileWidth'),
    toString(panelMoldingWidth'), toString(baseboardHeight'),
    toString(shoeMoldingHeight')>>

\* C23: right after any change of the unit preference (selectedUnit,
\* imperialUnit or metricUnit) each of the nine input buffers is the string
\* form of its display value in the newly selected unit.
C23_BuffersFollowUnitChange ==
  [][units' # units => inputs' = FreshInputs]_vars

\* What does hold: the buffers are refreshed by a change of selectedUnit.
C23_BuffersFollowSystemChange ==
  [][selectedUnit' # selectedUnit => inputs' = FreshInputs]_vars

\* Drawing units per display unit: the drawn wall width over the wall width
\* in the display unit.
DrawnPerDisplayUnit == Div[props.wainscotWidth, props.actualWallWidth]

\* C24: the number in the first-panel width arrow's label, actualPanelWidth,
\* is the real width of the span the arrow annotates: the drawn width of
\* panel cell (0, 0), from the arrow's x1 to its x2, brought back to the
\* display unit.
C24_PanelWidthLabelMatchesSpan ==
  panelWidthArrow # null =>
    /\ Near(Sub[panelWidthArrow.x2, panelWidthArrow.x1], panelAreas[1].width,
            props.wainscotWidth)
    /\ Near(Mul[actualPanelWidth, DrawnPerDisplayUnit], panelAreas[1].width,
            props.wainscotWidth)

\* What does hold: the label's number is the section width less one stile
\* width, the width of an interior cell, which the first cell is not.
C24_LabelIsInteriorCellWidth ==
  panelWidthArrow # null =>
    /\ Near(Sub[panelWidthArrow.x2, panelWidthArrow.x1], panelAreas[1].width,
            props.wainscotWidth)
    /\ Near(Mul[actualPanelWidth, DrawnPerDisplayUnit],
            Sub[Div[props.wainscotWidth, ToNumber(props.horizontalPanelCount)],
                props.stileWidth],
            props.wainscotWidth)

\* The larger dimension of a rail lumber, as the claims name it.
LargerDimension(lumber) ==
  CASE lumber = "1x2" -> 2 [] lumber = "1x3" -> 3 [] lumber = "1x4" -> 4
    [] lumber = "1x6" -> 6 [] lumber = "1x8" -> 8

\* C25 as stated: for every lumber selection the drawn bottom-rail height is
\* the railHeight prop and the drawn stile width is the stileWidth prop; the
\* top-rail height is railHeight * (larger dimension of the top-rail lumber /
\* larger dimension of the bottom-rail lumber); selecting another
\* bottom-rail lumber changes the top rail's height and not the bottom
\* rail's.
C25_SelectionAlwaysMovesTopRail ==
  /\ [](/\ bottomRailHeight = props.railHeight
        /\ adjustedStileWidth = props.stileWidth
        /\ topRailHeight =
             Mul[props.railHeight,
                 Rat(LargerDimension(lumberDimensions.topRail),
                     LargerDimension(lumberDimensions.bottomRail))])
  /\ [][(/\ lumberDimensions'.bottomRail # lumberDimensions.bottomRail
         /\ props' = props) =>
          /\ topRailHeight' # topRailHeight
          /\ bottomRailHeight' = bottomRailHeight]_vars

\* C25: the bottom-rail height and the stile width are the props, as doubles;
\* the top-rail height is (larger dimension of the top-rail lumber) *
\* (railHeight / larger dimension of the bottom-rail lumber), which is the
\* stated product up to the rounding of double arithmetic; selecting another
\* bottom-rail lumber leaves the bottom rail's height and changes the top
\* rail's height when the rail height is not zero (a top rail of height 0
\* stays 0).
C25_LumberScaleCancels ==
  /\ [](/\ bottomRailHeight = props.railHeight
        /\ adjustedStileWidth = props.stileWidth
        /\ topRailHeight =
             Mul[Num(LargerDimension(lumberDimensions.topRail)),
                 Div[props.railHeight,
                     Num(LargerDimension(lumberDimensions.bottomRail))]]
        /\ Near(topRailHeight,
                Mul[props.railHeight,
                    Rat(LargerDimension(lumberDimensions.topRail),
                        LargerDimension(lumberDimensions.bottomRail))],
                props.railHeight))
  /\ [][(/\ lumberDimensions'.bottomRail # lumberDimensions.bottomRail
         /\ props' = props) =>
          /\ bottomRailHeight' = bottomRailHeight
          /\ IF IsZero(props.railHeight)
             THEN topRailHeight' = topRailHeight
             ELSE ~Near(topRailHeight', topRailHeight, props.railHeight)]_vars

\* After three selections (top rail 1x6, bottom rail 1x8, stiles 1x6) on a
\* rail height of 40: the bottom rail is still 40 high, the stile is the
\* prop and the top rail is 30.
C25_Witness ==
  /\ lumberDimensions.bottomRail = "1x8"
  /\ lumberDimensions.topRail = "1x6"
  /\ lumberDimensions.stiles = "1x6"
  /\ edits = 0
  /\ props.railHeight = Num(40)
  /\ bottomRailHeight = Num(40)
  /\ adjustedStileWidth = props.stileWidth
  /\ topRailHeight = Num(30)

\* Across the step, the millimetre fields at the positions of dims outside
\* own are unchanged, and so are the panel counts and the unit preference.
OnlyFieldsChanged(own) ==
  /\ \A j \in (1..Len(dims)) \ own : dims'[j] = dims[j]
  /\ counts' = counts
  /\ units' = units

\* C27: each of the nine update functions changes only its own millimetre
\* field: every other millimetre dimension, both panel counts and the unit
\* preference are unchanged by the call; the exception is updateWallHeight,
\* after which chairRailHeightMm may be lower, and only when wallHeightMm has
\* changed.  (dims lists the fields in the order wall height, wall width,
\* chair rail, cap, rail, stile, panel moulding, baseboard, shoe moulding.)
C27_UpdateChangesOwnFieldOnly ==
  [][\A value \in RawInputs :
       /\ updateWallHeight(value) =>
            /\ OnlyFieldsChanged({1, 3})
            /\ Le[chairRailHeightMm', chairRailHeightMm]
            /\ chairRailHeightMm' # chairRailHeightMm =>
                 wallHeightMm' # wallHeightMm
       /\ updateWallWidth(value) => OnlyFieldsChanged({2})
       /\ updateChairRailHeight(value) => OnlyFieldsChanged({3})
       /\ updateWainscotCapHeight(value) => OnlyFieldsChanged({4})
       /\ updateRailHeight(value) => OnlyFieldsChanged({5})
       /\ updateStileWidth(value) => OnlyFieldsChanged({6})
       /\ updatePanelMoldingWidth(value) => OnlyFieldsChanged({7})
       /\ updateBaseboardHeight(value) => OnlyFieldsChanged({8})
       /\ updateShoeMoldingHeight(value) => OnlyFieldsChanged({9})]_vars

\* The wall height was set to 10 in (254 mm): the chair rail went down from
\* 102 mm to 50.8 mm and every other dimension is as it was created.
C27_Witness ==
  /\ edits = MaxEdits - 1
  /\ wallHeightInput = JSNumber(Num(10))
  /\ wallHeightMm = Num(254)
  /\ chairRailHeightMm = Rat(254, 5)
  /\ wallWidthMm = Num(889)
  /\ wainscotCapHeightMm = Num(19)
  /\ railHeightMm = Num(51)
  /\ stileWidthMm = Num(76)
  /\ panelMoldingWidthMm = Num(19)
  /\ baseboardHeightMm = Num(152)
  /\ shoeMoldingHeightMm = Num(19)
  /\ horizontalPanelCount = Num(3)
  /\ verticalPanelCount = Num(1)
  /\ selectedUnit = "imperial"

====
